---- MODULE Spec2Model ----
(***************************************************************************)
(* Model of the UCP <-> Shopify bridge services of dorrio/shopify-ucp-bridge *)
(* (app/services/ucp/checkoutService.ts, app/services/ucp/cartService.ts).  *)
(*                                                                         *)
(* The backend (Shopify Admin GraphQL) holds one draft-order record per id; *)
(* the services are stateless and every handler is a sequence of backend    *)
(* round trips.  A handler that reads and then writes is split into a fetch *)
(* step and a mutation step at its await on the mutation.  Under Spec the   *)
(* handlers run one at a time (Serial); the record they start from is any   *)
(* record the backend can hold, or none.                                    *)
(***************************************************************************)
EXTENDS Integers, Sequences, FiniteSets, TLC

VARIABLES
    store,      \* the backend draft-order record of the checkout id, NullObj when none
    pc,         \* per caller of a two-step handler: the handler awaiting its mutation, or "idle"
    fetched,    \* per caller: the draft record read by getCheckout at the fetch step
    ret,        \* outcome of the handler that finished last
    issued,     \* the last step: the handler that took it and the backend mutation it issued
    response,   \* the backend's response to that mutation
    reported,   \* terminal status already returned for the checkout id
    codec,      \* a money amount on its way through toMinorUnits and fromMinorUnits
    wire,       \* a request on its way from a transport through the normalizer to a mapper
    outbound,   \* a backend record on its way through a mapper and the response formatter
    rpc,        \* a POST /api/mcp request on its way through the JSON-RPC endpoint
    proxy       \* the stdio MCP proxy: its line buffer, its promise chain and its stdout

vars == <<store, pc, fetched, ret, issued, response, reported, codec, wire, outbound, rpc, proxy>>

-----------------------------------------------------------------------------
(* JavaScript values *)

\* null / undefined of a string-valued field
NullStr == "null"
\* null / undefined of an object-valued field
NullObj == [null |-> TRUE]

\* JS truthiness of a string-or-null value
TruthyStr(s) == s # NullStr /\ s # ""
\* JS truthiness of an object-or-null value
TruthyObj(o) == o # NullObj

Callers == {"c1"}

CheckoutId == "gid://shopify/DraftOrder/1"
InvoiceUrl == "https://shop.example/invoice/1"
VariantId  == "gid://shopify/ProductVariant/1"
BuyerEmail == "buyer@example.com"

\* customer { email } of DRAFT_ORDER_CHECKOUT_FIELDS
Customers == [email : {NullStr, BuyerEmail}]
\* shippingAddress / billingAddress { address1 city } of DRAFT_ORDER_CHECKOUT_FIELDS
FullAddress == [address1 |-> "1 Main St", city |-> "Springfield"]
Addresses == {FullAddress, [address1 |-> "", city |-> "Springfield"]}
\* order { id name statusPageUrl }
LinkedOrder == [id |-> "gid://shopify/Order/9", name |-> "#1009"]
\* lineItems { edges { node } } of a draft record, as the backend line-item inputs
DraftLineItemLists == {<< >>, <<[variantId |-> VariantId, quantity |-> 1]>>}

\* the draft-order records the backend can hold
Drafts ==
    [ id              : {CheckoutId},
      order           : {NullObj, LinkedOrder},
      status          : {"OPEN", "COMPLETED"},
      invoiceUrl      : {NullStr, InvoiceUrl},
      customer        : {NullObj} \cup Customers,
      shippingAddress : {NullObj} \cup Addresses,
      billingAddress  : {NullObj, FullAddress},
      lineItems       : DraftLineItemLists ]

\* userErrors { field message } of a mutation payload
UserErrorLists ==
    { << >>,
      <<[message |-> "Draft order not found"], [message |-> "Email is invalid"]>> }

-----------------------------------------------------------------------------
(* Status mapping and messages *)

\* slip: the backend's COMPLETED marker is not looked at, only the linked order
mapShopifyStatusToUCP_NoStatusCheck(draftOrder) ==
    IF TruthyObj(draftOrder.order) THEN "completed"
    ELSE IF /\ TruthyStr(draftOrder.invoiceUrl)
            /\ TruthyObj(draftOrder.customer)
            /\ TruthyStr(draftOrder.customer.email)
            /\ TruthyObj(draftOrder.shippingAddress)
         THEN "ready_for_complete"
    ELSE "incomplete"

\* slip: readiness also asks for a line item
mapShopifyStatusToUCP_NeedsLineItems(draftOrder) ==
    IF TruthyObj(draftOrder.order) THEN "completed"
    ELSE IF draftOrder.status = "COMPLETED" THEN "completed"
    ELSE IF /\ TruthyStr(draftOrder.invoiceUrl)
            /\ TruthyObj(draftOrder.customer)
            /\ TruthyStr(draftOrder.customer.email)
            /\ TruthyObj(draftOrder.shippingAddress)
            /\ Len(draftOrder.lineItems) > 0
         THEN "ready_for_complete"
    ELSE "incomplete"

\* slip: an invoice URL without buyer details sends the buyer to the invoice page
mapShopifyStatusToUCP_Escalates(draftOrder) ==
    IF TruthyObj(draftOrder.order) THEN "completed"
    ELSE IF draftOrder.status = "COMPLETED" THEN "completed"
    ELSE IF /\ TruthyStr(draftOrder.invoiceUrl)
            /\ TruthyObj(draftOrder.customer)
            /\ TruthyStr(draftOrder.customer.email)
            /\ TruthyObj(draftOrder.shippingAddress)
         THEN "ready_for_complete"
    ELSE IF TruthyStr(draftOrder.invoiceUrl) THEN "requires_escalation"
    ELSE "incomplete"

mapShopifyStatusToUCP(draftOrder) ==
    IF TruthyObj(draftOrder.order) THEN "completed"
    ELSE IF draftOrder.status = "COMPLETED" THEN "completed"
    ELSE IF /\ TruthyStr(draftOrder.invoiceUrl)
            /\ TruthyObj(draftOrder.customer)
            /\ TruthyStr(draftOrder.customer.email)
            /\ TruthyObj(draftOrder.shippingAddress)
         THEN "ready_for_complete"
    ELSE "incomplete"

\* draftOrder.customer?.email
CustomerEmail(draftOrder) ==
    IF TruthyObj(draftOrder.customer) THEN draftOrder.customer.email ELSE NullStr

Msg(type, code) == [type |-> type, code |-> code]

\* slip: the checks are chained with else, so only the first missing item is reported
generateCheckoutMessages_FirstOnly(draftOrder, status) ==
    IF status = "incomplete" /\ ~TruthyStr(CustomerEmail(draftOrder))
        THEN <<Msg("error", "missing_buyer_email")>>
    ELSE IF status = "incomplete" /\ ~TruthyObj(draftOrder.shippingAddress)
        THEN <<Msg("error", "missing_shipping_address")>>
    ELSE IF status = "incomplete" /\ Len(draftOrder.lineItems) = 0
        THEN <<Msg("error", "empty_cart")>>
    ELSE IF status = "requires_escalation"
        THEN <<Msg("warning", "requires_buyer_input")>>
    ELSE << >>

generateCheckoutMessages(draftOrder, status) ==
    (IF status = "incomplete" /\ ~TruthyStr(CustomerEmail(draftOrder))
        THEN <<Msg("error", "missing_buyer_email")>> ELSE << >>)
    \o
    (IF status = "incomplete" /\ ~TruthyObj(draftOrder.shippingAddress)
        THEN <<Msg("error", "missing_shipping_address")>> ELSE << >>)
    \o
    (IF status = "incomplete" /\ Len(draftOrder.lineItems) = 0
        THEN <<Msg("error", "empty_cart")>> ELSE << >>)
    \o
    (IF status = "requires_escalation"
        THEN <<Msg("warning", "requires_buyer_input")>> ELSE << >>)

\* [shipping, billing].map(transformShopifyAddressToUCP).filter(Boolean)
BuyerAddresses(draftOrder) ==
    (IF TruthyObj(draftOrder.shippingAddress) THEN <<draftOrder.shippingAddress>> ELSE << >>)
    \o
    (IF TruthyObj(draftOrder.billingAddress) THEN <<draftOrder.billingAddress>> ELSE << >>)

\* messages: << >> stands for the undefined that the mapper stores for an empty list
transformShopifyDraftOrderToUCPCheckout(draftOrder) ==
    LET status == mapShopifyStatusToUCP(draftOrder)
    IN  [ id           |-> draftOrder.id,
          line_items   |-> draftOrder.lineItems,
          status       |-> status,
          links        |-> IF TruthyStr(draftOrder.invoiceUrl)
                             THEN <<"self", "checkout">> ELSE <<"self">>,
          messages     |-> generateCheckoutMessages(draftOrder, status),
          continue_url |-> IF status = "requires_escalation"
                             THEN draftOrder.invoiceUrl ELSE NullStr,
          buyer        |-> IF TruthyObj(draftOrder.customer)
                             THEN [ email     |-> draftOrder.customer.email,
                                    addresses |-> BuyerAddresses(draftOrder) ]
                             ELSE NullObj,
          order        |-> draftOrder.order ]

-----------------------------------------------------------------------------
(* Requests and the backend input built from them *)

\* a request field the caller left out, for list-valued fields
AbsentList == <<NullObj>>

\* UCPLineItem of a request
RequestLineItem == [product_id |-> "gid://shopify/Product/1", variant_id |-> VariantId, quantity |-> 1]
RequestLineItemLists == {<< >>, <<RequestLineItem>>}

\* Object.entries(properties).map(([key, value]) => ({ key, value })), for the objects
\* of the model, which hold one key at most
ObjectEntries(properties) ==
    IF DOMAIN properties = {} THEN << >>
    ELSE LET key == CHOOSE k \in DOMAIN properties : TRUE
         IN  <<[key |-> key, value |-> properties[key]]>>

\* an item that has no properties key is an item whose properties are undefined
HasProperties(item) == "properties" \in DOMAIN item /\ TruthyObj(item.properties)

\* slip: the price the caller states is handed to the backend as the unit price
transformLineItemToShopify_WithPrice(item) ==
    IF HasProperties(item)
    THEN [variantId |-> item.variant_id, quantity |-> item.quantity,
          originalUnitPrice |-> item.price,
          customAttributes |-> ObjectEntries(item.properties)]
    ELSE [variantId |-> item.variant_id, quantity |-> item.quantity,
          originalUnitPrice |-> item.price]

transformLineItemToShopify(item) ==
    IF HasProperties(item)
    THEN [variantId |-> item.variant_id, quantity |-> item.quantity,
          customAttributes |-> ObjectEntries(item.properties)]
    ELSE [variantId |-> item.variant_id, quantity |-> item.quantity]

MapLineItems(items) == [i \in 1..Len(items) |-> transformLineItemToShopify(items[i])]

transformAddressToShopify(address) ==
    [address1 |-> address.address1, city |-> address.city]

\* UCPCheckoutCreateRequest
CheckoutCreateRequests ==
    [ line_items  : RequestLineItemLists,
      email       : {NullStr, BuyerEmail},
      destination : {NullObj} \cup Addresses,
      billing     : {NullObj, FullAddress} ]

\* UCPCheckoutUpdateRequest
CheckoutUpdateRequests ==
    [ line_items  : {AbsentList} \cup RequestLineItemLists,
      email       : {NullStr, BuyerEmail},
      destination : {NullObj} \cup Addresses,
      billing     : {NullObj, FullAddress} ]

\* UCPCartCreateRequest / UCPCartUpdateRequest
CartRequests ==
    [ line_items : RequestLineItemLists,
      email      : {NullStr, BuyerEmail} ]

\* DraftOrderInput that always carries lineItems, empty when the request has none
CheckoutInput_DefaultsLineItems(request) ==
    [ lineItems       |-> IF request.line_items # AbsentList
                            THEN MapLineItems(request.line_items) ELSE << >>,
      email           |-> IF TruthyStr(request.email) THEN request.email ELSE NullStr,
      shippingAddress |-> IF TruthyObj(request.destination)
                            THEN transformAddressToShopify(request.destination) ELSE NullObj,
      billingAddress  |-> IF TruthyObj(request.billing)
                            THEN transformAddressToShopify(request.billing) ELSE NullObj ]

\* DraftOrderInput; a field holding its null value is a key the input does not carry
CheckoutInput(request) ==
    [ lineItems       |-> IF request.line_items # AbsentList
                            THEN MapLineItems(request.line_items) ELSE AbsentList,
      email           |-> IF TruthyStr(request.email) THEN request.email ELSE NullStr,
      shippingAddress |-> IF TruthyObj(request.destination)
                            THEN transformAddressToShopify(request.destination) ELSE NullObj,
      billingAddress  |-> IF TruthyObj(request.billing)
                            THEN transformAddressToShopify(request.billing) ELSE NullObj ]

CartInput(request) ==
    [ lineItems       |-> MapLineItems(request.line_items),
      email           |-> IF TruthyStr(request.email) THEN request.email ELSE NullStr,
      shippingAddress |-> NullObj,
      billingAddress  |-> NullObj ]

-----------------------------------------------------------------------------
(* The backend: what a mutation can answer and what it does to the record *)

\* records draftOrderCreate can make of an input; invoice URL and customer are the backend's choice
CreatedDrafts(input) ==
    { d \in Drafts :
        /\ d.order = NullObj
        /\ d.status = "OPEN"
        /\ d.lineItems = input.lineItems
        /\ d.shippingAddress = input.shippingAddress
        /\ d.billingAddress = input.billingAddress
        /\ (~TruthyStr(input.email) => d.customer = NullObj) }

\* records draftOrderUpdate can make of record cur: only the supplied fields change
UpdatedDrafts(cur, input) ==
    { d \in Drafts :
        /\ d.order = cur.order
        /\ d.status = cur.status
        /\ d.invoiceUrl = cur.invoiceUrl
        /\ d.lineItems = (IF input.lineItems # AbsentList THEN input.lineItems ELSE cur.lineItems)
        /\ d.shippingAddress = (IF TruthyObj(input.shippingAddress)
                                  THEN input.shippingAddress ELSE cur.shippingAddress)
        /\ d.billingAddress = (IF TruthyObj(input.billingAddress)
                                 THEN input.billingAddress ELSE cur.billingAddress)
        /\ (~TruthyStr(input.email) => d.customer = cur.customer) }

\* the record draftOrderComplete makes of record cur
CompletedDraft(cur) == [cur EXCEPT !.order = LinkedOrder, !.status = "COMPLETED"]

\* payloads { draftOrder userErrors } for a set of possible resulting records
DraftPayloads(results) ==
    [draftOrder : results, userErrors : {<< >>}]
    \cup [draftOrder : {NullObj}, userErrors : UserErrorLists]

\* payloads { deletedId userErrors } of draftOrderDelete on record cur
DeletePayloads(cur) ==
    [ deletedId  : IF cur = NullObj THEN {NullStr} ELSE {NullStr, CheckoutId},
      userErrors : UserErrorLists ]

NoResponse == [draftOrder |-> NullObj, deletedId |-> NullStr, userErrors |-> << >>]

\* the record after a mutation answered with payload p
StoreAfterDraft(cur, p) == IF TruthyObj(p.draftOrder) THEN p.draftOrder ELSE cur
StoreAfterDelete(cur, p) == IF TruthyStr(p.deletedId) THEN NullObj ELSE cur

-----------------------------------------------------------------------------
(* Handler outcomes *)

NoValue == NullObj

Returned(op, value) ==
    [op |-> op, outcome |-> "ok", value |-> value, error |-> << >>]
ReturnedNull(op) ==
    [op |-> op, outcome |-> "null", value |-> NoValue, error |-> << >>]
\* error: the message of the thrown Error, as the fragments it is built from
Thrown(op, message) ==
    [op |-> op, outcome |-> "throw", value |-> NoValue, error |-> message]

NotFoundMessage == <<"Checkout ", CheckoutId, " not found">>
\* reading .draftOrder fields of a payload without a draftOrder
TypeErrorMessage == <<"TypeError: Cannot read properties of null">>

\* `if (userErrors?.length > 0) throw new Error(userErrors[0].message);
\*  return transformShopifyDraftOrderToUCPCheckout(draftOrder)`
CheckoutMutationOutcome(op, p) ==
    IF Len(p.userErrors) > 0 THEN Thrown(op, <<p.userErrors[1].message>>)
    ELSE IF ~TruthyObj(p.draftOrder) THEN Thrown(op, TypeErrorMessage)
    ELSE Returned(op, transformShopifyDraftOrderToUCPCheckout(p.draftOrder))

IsCheckout(r) == r.outcome = "ok" /\ r.op \in {"createCheckout", "getCheckout", "updateCheckout",
                                                 "completeCheckout", "cancelCheckout"}

\* the terminal status a result reports for the checkout id, if any
ReportedAfter(r, old) ==
    IF IsCheckout(r) /\ r.value.status \in {"completed", "canceled"} THEN r.value.status ELSE old

Contains(message, fragment) == \E i \in 1..Len(message) : message[i] = fragment

-----------------------------------------------------------------------------
(* The cart mapping *)

transformShopifyDraftOrderToUCPCart(draftOrder) ==
    [ id           |-> draftOrder.id,
      line_items   |-> draftOrder.lineItems,
      continue_url |-> draftOrder.invoiceUrl,
      buyer        |-> IF TruthyObj(draftOrder.customer)
                         THEN [email |-> draftOrder.customer.email] ELSE NullObj ]

\* `if (userErrors?.length > 0) throw new Error(userErrors[0].message);
\*  return transformShopifyDraftOrderToUCPCart(draftOrder)`
CartMutationOutcome(op, p) ==
    IF Len(p.userErrors) > 0 THEN Thrown(op, <<p.userErrors[1].message>>)
    ELSE IF ~TruthyObj(p.draftOrder) THEN Thrown(op, TypeErrorMessage)
    ELSE Returned(op, transformShopifyDraftOrderToUCPCart(p.draftOrder))

-----------------------------------------------------------------------------
(* The completion pre-check *)

\* checkout.buyer?.email
CheckoutEmail(checkout) ==
    IF TruthyObj(checkout.buyer) THEN checkout.buyer.email ELSE NullStr

\* checkout.buyer?.addresses?.some(addr => addr.address1 && addr.city)
HasShipping(checkout) ==
    /\ TruthyObj(checkout.buyer)
    /\ \E i \in 1..Len(checkout.buyer.addresses) :
          /\ TruthyStr(checkout.buyer.addresses[i].address1)
          /\ TruthyStr(checkout.buyer.addresses[i].city)

PreconditionsMet(checkout) ==
    TruthyStr(CheckoutEmail(checkout)) /\ HasShipping(checkout)

\* missing.join(" and ")
MissingList(checkout) ==
    LET noEmail == ~TruthyStr(CheckoutEmail(checkout))
        noShip  == ~HasShipping(checkout)
    IN  IF noEmail /\ noShip THEN <<"buyer email", " and ", "shipping address">>
        ELSE IF noEmail THEN <<"buyer email">>
        ELSE IF noShip THEN <<"shipping address">>
        ELSE << >>

PreconditionMessage(checkout) ==
    <<"Cannot complete checkout: ">> \o MissingList(checkout)
      \o <<" is missing. Please use update_checkout to provide these details first.">>

CanceledMessage == Msg("info", "checkout_canceled")

-----------------------------------------------------------------------------
(* State machine *)

\* "none" for a step that issued no mutation
Step(handler, name) == [handler |-> handler, mutation |-> name]

NoResult == [op |-> "none", outcome |-> "none", value |-> NoValue, error |-> << >>]

Init ==
    /\ store \in Drafts \cup {NullObj}
    /\ pc = [c \in Callers |-> "idle"]
    /\ fetched = [c \in Callers |-> NullObj]
    /\ ret = NoResult
    /\ issued = Step("none", "none")
    /\ response = NoResponse
    /\ reported = "none"
    /\ codec = NullObj
    /\ wire = NullObj
    /\ outbound = NullObj
    /\ rpc = NullObj
    /\ proxy = NullObj

\* no handler is between its fetch step and its mutation: handlers run one at a time
Serial == \A c \in Callers : pc[c] = "idle"

\* the end of a handler: it issued backend mutation name (answered by payload p) or
\* none, and returns or throws r
Finish(r, name, p, newStore) ==
    /\ ret' = r
    /\ issued' = Step(r.op, name)
    /\ response' = p
    /\ store' = newStore
    /\ reported' = ReportedAfter(r, reported)
    /\ UNCHANGED <<codec, wire, outbound, rpc, proxy>>

AsDraftPayload(p) == [draftOrder |-> p.draftOrder, deletedId |-> NullStr, userErrors |-> p.userErrors]
AsDeletePayload(p) == [draftOrder |-> NullObj, deletedId |-> p.deletedId, userErrors |-> p.userErrors]

\* the checkout id does not exist yet: the backend makes a record under it
createCheckout ==
    /\ Serial
    /\ store = NullObj
    /\ reported = "none"
    /\ \E request \in CheckoutCreateRequests :
       \E p \in DraftPayloads(CreatedDrafts(CheckoutInput(request))) :
          Finish(CheckoutMutationOutcome("createCheckout", p),
                 "draftOrderCreate", AsDraftPayload(p), StoreAfterDraft(store, p))
    /\ UNCHANGED <<pc, fetched>>

getCheckout ==
    /\ Serial
    /\ Finish(IF TruthyObj(store)
                THEN Returned("getCheckout", transformShopifyDraftOrderToUCPCheckout(store))
                ELSE ReturnedNull("getCheckout"),
              "none", NoResponse, store)
    /\ UNCHANGED <<pc, fetched>>

updateCheckout ==
    /\ Serial
    /\ \E request \in CheckoutUpdateRequests :
       \E p \in DraftPayloads(IF TruthyObj(store)
                                THEN UpdatedDrafts(store, CheckoutInput(request)) ELSE {}) :
          Finish(CheckoutMutationOutcome("updateCheckout", p),
                 "draftOrderUpdate", AsDraftPayload(p), StoreAfterDraft(store, p))
    /\ UNCHANGED <<pc, fetched>>

\* a two-step handler of caller c passes its fetch step and awaits its mutation
Await(c, op) ==
    /\ pc' = [pc EXCEPT ![c] = op]
    /\ fetched' = [fetched EXCEPT ![c] = store]
    /\ issued' = Step(op, "none")
    /\ response' = NoResponse
    /\ UNCHANGED <<store, ret, reported, codec, wire, outbound, rpc, proxy>>

\* the handler of caller c is over
Idle(c) ==
    /\ pc' = [pc EXCEPT ![c] = "idle"]
    /\ fetched' = [fetched EXCEPT ![c] = NullObj]

\* completeCheckout up to its await on the mutation: fetch, not-found check, pre-check
completeCheckoutFetch(c) ==
    /\ Serial
    /\ IF ~TruthyObj(store)
         THEN /\ Finish(Thrown("completeCheckout", NotFoundMessage), "none", NoResponse, store)
              /\ Idle(c)
       ELSE IF ~PreconditionsMet(transformShopifyDraftOrderToUCPCheckout(store))
         THEN /\ Finish(Thrown("completeCheckout",
                               PreconditionMessage(transformShopifyDraftOrderToUCPCheckout(store))),
                        "none", NoResponse, store)
              /\ Idle(c)
       ELSE Await(c, "completeCheckout")

\* completeCheckout from the mutation on
completeCheckoutMutate(c) ==
    /\ pc[c] = "completeCheckout"
    /\ \E p \in DraftPayloads(IF TruthyObj(store) THEN {CompletedDraft(store)} ELSE {}) :
          Finish(CheckoutMutationOutcome("completeCheckout", p),
                 "draftOrderComplete", AsDraftPayload(p), StoreAfterDraft(store, p))
    /\ Idle(c)

\* slip: the canceled checkout no longer names its buyer
CanceledCheckout_WithoutBuyer(checkout) ==
    [checkout EXCEPT !.status = "canceled", !.messages = <<CanceledMessage>>,
                     !.buyer = NullObj]

\* { ...checkout, status: 'canceled', messages: [checkout_canceled] }
CanceledCheckout(checkout) ==
    [checkout EXCEPT !.status = "canceled", !.messages = <<CanceledMessage>>]

\* slip: a deletion that names no deleted id is taken for a failure
CancelOutcome_NeedsDeletedId(p, checkout) ==
    IF Len(p.userErrors) > 0 THEN Thrown("cancelCheckout", <<p.userErrors[1].message>>)
    ELSE IF ~TruthyStr(p.deletedId) THEN Thrown("cancelCheckout", NotFoundMessage)
    ELSE Returned("cancelCheckout", CanceledCheckout(checkout))

CancelOutcome(p, checkout) ==
    IF Len(p.userErrors) > 0 THEN Thrown("cancelCheckout", <<p.userErrors[1].message>>)
    ELSE Returned("cancelCheckout", CanceledCheckout(checkout))

\* slip: the deletion is sent before the fetched checkout is looked at
cancelCheckoutFetch_DeleteFirst(c) ==
    /\ Serial
    /\ \E p \in DeletePayloads(store) :
          Finish(IF ~TruthyObj(store)
                   THEN Thrown("cancelCheckout", NotFoundMessage)
                   ELSE CancelOutcome(p, transformShopifyDraftOrderToUCPCheckout(store)),
                 "draftOrderDelete", AsDeletePayload(p), StoreAfterDelete(store, p))
    /\ Idle(c)

\* cancelCheckout up to its await on the mutation: fetch, not-found check
cancelCheckoutFetch(c) ==
    /\ Serial
    /\ IF ~TruthyObj(store)
         THEN /\ Finish(Thrown("cancelCheckout", NotFoundMessage), "none", NoResponse, store)
              /\ Idle(c)
       ELSE Await(c, "cancelCheckout")

\* cancelCheckout from the mutation on
cancelCheckoutMutate(c) ==
    /\ pc[c] = "cancelCheckout"
    /\ \E p \in DeletePayloads(store) :
          Finish(CancelOutcome(p, transformShopifyDraftOrderToUCPCheckout(fetched[c])),
                 "draftOrderDelete", AsDeletePayload(p), StoreAfterDelete(store, p))
    /\ Idle(c)

createCart ==
    /\ Serial
    /\ store = NullObj
    /\ reported = "none"
    /\ \E request \in CartRequests :
       \E p \in DraftPayloads(CreatedDrafts(CartInput(request))) :
          Finish(CartMutationOutcome("createCart", p),
                 "draftOrderCreate", AsDraftPayload(p), StoreAfterDraft(store, p))
    /\ UNCHANGED <<pc, fetched>>

updateCart ==
    /\ Serial
    /\ \E request \in CartRequests :
       \E p \in DraftPayloads(IF TruthyObj(store)
                                THEN UpdatedDrafts(store, CartInput(request)) ELSE {}) :
          Finish(CartMutationOutcome("updateCart", p),
                 "draftOrderUpdate", AsDraftPayload(p), StoreAfterDraft(store, p))
    /\ UNCHANGED <<pc, fetched>>

\* return !!data.data?.draftOrderDelete?.deletedId
DeleteCartOutcome(p) ==
    Returned("deleteCart", [deleted |-> TruthyStr(p.deletedId)])

deleteCart ==
    /\ Serial
    /\ \E p \in DeletePayloads(store) :
          Finish(DeleteCartOutcome(p),
                 "draftOrderDelete", AsDeletePayload(p), StoreAfterDelete(store, p))
    /\ UNCHANGED <<pc, fetched>>

Next ==
    \/ createCheckout
    \/ getCheckout
    \/ updateCheckout
    \/ \E c \in Callers : completeCheckoutFetch(c)
    \/ \E c \in Callers : completeCheckoutMutate(c)
    \/ \E c \in Callers : cancelCheckoutFetch(c)
    \/ \E c \in Callers : cancelCheckoutMutate(c)
    \/ createCart
    \/ updateCart
    \/ deleteCart

Spec == Init /\ [][Next]_vars

TypeOK ==
    /\ store \in Drafts \cup {NullObj}
    /\ pc \in [Callers -> {"idle", "completeCheckout", "cancelCheckout"}]
    /\ issued.mutation \in {"none", "draftOrderCreate", "draftOrderUpdate", "draftOrderComplete", "draftOrderDelete"}
    /\ reported \in {"none", "completed", "canceled"}

-----------------------------------------------------------------------------
(* Properties *)

\* the handlers that return the mapping of a draft record
MapperOps == {"createCheckout", "getCheckout", "updateCheckout", "completeCheckout"}
TransitionOps == {"updateCheckout", "completeCheckout", "cancelCheckout"}

\* ret is a checkout mapped from the record now in store
Mapped == ret.outcome = "ok" /\ ret.op \in MapperOps

HasEmail(d) == TruthyObj(d.customer) /\ TruthyStr(d.customer.email)
HasShippingAddress(d) == TruthyObj(d.shippingAddress)
HasInvoiceUrl(d) == TruthyStr(d.invoiceUrl)
BackendCompleted(d) == TruthyObj(d.order) \/ d.status = "COMPLETED"

HasMessage(checkout, code) ==
    \E i \in 1..Len(checkout.messages) : checkout.messages[i].code = code
ErrorMessages(checkout) ==
    {i \in 1..Len(checkout.messages) : checkout.messages[i].type = "error"}

\* C1: the status a mapper handler returns is decided by five fields of the draft record:
\* completed if an order is linked or the backend status is COMPLETED, else
\* ready_for_complete if invoice URL, customer email and shipping address are all
\* present, else incomplete.
C1_StatusIsFunctionOfDraft ==
    Mapped =>
        /\ BackendCompleted(store) => ret.value.status = "completed"
        /\ (~BackendCompleted(store) /\ HasInvoiceUrl(store) /\ HasEmail(store)
              /\ HasShippingAddress(store)) => ret.value.status = "ready_for_complete"
        /\ (~BackendCompleted(store) /\ ~(HasInvoiceUrl(store) /\ HasEmail(store)
              /\ HasShippingAddress(store))) => ret.value.status = "incomplete"

C1_Witness ==
    /\ Mapped
    /\ ret.op = "updateCheckout"
    /\ store.order = NullObj
    /\ store.status = "COMPLETED"
    /\ ret.value.status = "completed"

\* C2: completeCheckout on a record without a shipping address throws an error naming
\* "shipping address" and never reaches the draftOrderComplete mutation, whatever the
\* other fields are.
C2_CompleteNeedsShipping ==
    /\ \A c \in Callers :
          pc[c] = "completeCheckout" => HasShippingAddress(fetched[c])
    /\ (issued = Step("completeCheckout", "none") /\ Serial /\ TruthyObj(store)
          /\ ~HasShippingAddress(store))
        => (ret.outcome = "throw" /\ Contains(ret.error, "shipping address"))

\* C3: once completed or canceled has been returned for the checkout id, no later
\* updateCheckout, completeCheckout or cancelCheckout issues a backend mutation or
\* returns a checkout with another status.
C3_TerminalIsFinal ==
    [][ (reported # "none" /\ issued'.handler \in TransitionOps)
          => /\ issued'.mutation = "none"
             /\ (ret'.outcome = "ok" /\ ret'.op = issued'.handler)
                  => ret'.value.status = reported ]_vars

\* C4 as stated: cancelCheckout that reached its deletion returns the canceled checkout
\* whatever the deletion response holds.
C4_CanceledWhateverResponse ==
    issued = Step("cancelCheckout", "draftOrderDelete")
        => /\ ret.outcome = "ok"
           /\ ret.value.status = "canceled"
           /\ ret.value.messages = <<CanceledMessage>>

\* C4 amended: cancelCheckout that reached its deletion returns the checkout with status
\* canceled and the checkout_canceled message whenever the response has no userErrors,
\* with or without a deletedId; with userErrors it throws the first one's message.
C4_CanceledUnlessUserErrors ==
    issued = Step("cancelCheckout", "draftOrderDelete")
        => IF Len(response.userErrors) = 0
             THEN /\ ret.outcome = "ok"
                  /\ ret.op = "cancelCheckout"
                  /\ ret.value.id = CheckoutId
                  /\ ret.value.status = "canceled"
                  /\ ret.value.messages = <<CanceledMessage>>
             ELSE ret = Thrown("cancelCheckout", <<response.userErrors[1].message>>)

C4_Witness ==
    /\ issued = Step("cancelCheckout", "draftOrderDelete")
    /\ response.deletedId = NullStr
    /\ response.userErrors = << >>
    /\ TruthyObj(store)
    /\ ret.outcome = "ok"
    /\ ret.value.status = "canceled"

\* C5: cancelCheckout and completeCheckout whose fetch finds no record throw not-found
\* and issue no mutation; a mutation of theirs is only ever issued by a caller that
\* fetched a record first.
C5_ReadMissStops ==
    [][ /\ (store = NullObj /\ issued'.handler \in {"cancelCheckout", "completeCheckout"}
              /\ Serial)
            => /\ ret' = Thrown(issued'.handler, NotFoundMessage)
               /\ issued'.mutation = "none"
               /\ store' = NullObj
               /\ \A c \in Callers : pc'[c] = "idle"
        /\ (issued'.handler \in {"cancelCheckout", "completeCheckout"}
              /\ issued'.mutation # "none")
            => \E c \in Callers : pc[c] = issued'.handler /\ TruthyObj(fetched[c]) ]_vars

C5_Witness ==
    /\ store = NullObj
    /\ issued = Step("cancelCheckout", "none")
    /\ ret = Thrown("cancelCheckout", NotFoundMessage)

\* C6 as stated: a record with no customer email and no shipping address always maps to
\* incomplete with both missing_buyer_email and missing_shipping_address.
C6_NoEmailNoShippingIsIncomplete ==
    (Mapped /\ ~HasEmail(store) /\ ~HasShippingAddress(store))
        => /\ ret.value.status = "incomplete"
           /\ HasMessage(ret.value, "missing_buyer_email")
           /\ HasMessage(ret.value, "missing_shipping_address")

\* C6 amended: such a record maps to incomplete with both messages unless an order is
\* linked or the backend status is COMPLETED; then it maps to completed without messages.
C6_NoEmailNoShippingUnlessCompleted ==
    (Mapped /\ ~HasEmail(store) /\ ~HasShippingAddress(store))
        => IF BackendCompleted(store)
             THEN ret.value.status = "completed" /\ ret.value.messages = << >>
             ELSE /\ ret.value.status = "incomplete"
                  /\ HasMessage(ret.value, "missing_buyer_email")
                  /\ HasMessage(ret.value, "missing_shipping_address")

C6_Witness ==
    /\ Mapped
    /\ ~HasEmail(store) /\ ~HasShippingAddress(store) /\ ~BackendCompleted(store)
    /\ HasInvoiceUrl(store)
    /\ Len(store.lineItems) > 0
    /\ ret.value.status = "incomplete"
    /\ Len(ret.value.messages) = 2

\* C7 as stated: a record with customer email, shipping address and invoice URL always
\* maps to ready_for_complete with no error message.
C7_DetailsPresentIsReady ==
    (Mapped /\ HasEmail(store) /\ HasShippingAddress(store) /\ HasInvoiceUrl(store))
        => /\ ret.value.status = "ready_for_complete"
           /\ ErrorMessages(ret.value) = {}

\* C7 amended: such a record maps to ready_for_complete, or to completed when an order is
\* linked or the backend status is COMPLETED; in both cases with no error message.
C7_DetailsPresentIsReadyOrCompleted ==
    (Mapped /\ HasEmail(store) /\ HasShippingAddress(store) /\ HasInvoiceUrl(store))
        => /\ ret.value.status =
                (IF BackendCompleted(store) THEN "completed" ELSE "ready_for_complete")
           /\ ErrorMessages(ret.value) = {}

C7_Witness ==
    /\ Mapped
    /\ HasEmail(store) /\ HasShippingAddress(store) /\ HasInvoiceUrl(store)
    /\ Len(store.lineItems) = 0
    /\ ret.value.status = "ready_for_complete"

\* C8: the pre-check error of completeCheckout names "buyer email" exactly when the
\* record has no customer email and "shipping address" exactly when it has no shipping
\* address.
C8_ErrorNamesExactlyMissing ==
    (ret.op = "completeCheckout" /\ ret.outcome = "throw"
       /\ Contains(ret.error, "Cannot complete checkout: "))
        => /\ TruthyObj(store)
           /\ Contains(ret.error, "buyer email") <=> ~HasEmail(store)
           /\ Contains(ret.error, "shipping address") <=> ~HasShippingAddress(store)

\* C9: every mutating handler whose backend response has userErrors throws the first
\* one's message and returns nothing.
C9_UserErrorsThrow ==
    (issued.mutation # "none" /\ Len(response.userErrors) > 0)
        => ret = Thrown(issued.handler, <<response.userErrors[1].message>>)

\* C10: the mapper handlers never return requires_escalation, complete_in_progress or
\* canceled, never set continue_url and never emit the escalation warning; canceled comes
\* from cancelCheckout only.
C10_OnlyThreeStatusesMapped ==
    /\ Mapped =>
          /\ ret.value.status \in {"incomplete", "ready_for_complete", "completed"}
          /\ ret.value.continue_url = NullStr
          /\ ~HasMessage(ret.value, "requires_buyer_input")
    /\ (IsCheckout(ret) /\ ret.value.status = "canceled") => ret.op = "cancelCheckout"

C10_Witness ==
    /\ Mapped
    /\ HasInvoiceUrl(store)
    /\ ~HasEmail(store)
    /\ ret.value.status = "incomplete"
    /\ ret.value.continue_url = NullStr

\* ---- pure transforms ----
-----------------------------------------------------------------------------
(* The lifecycle at rest, for the specifications of the pure transforms *)

lifecycleVars == <<store, pc, fetched, ret, issued, response, reported>>

\* no checkout exists and no mapper handler has run
LifecycleAtRest ==
    /\ store = NullObj
    /\ pc = [c \in Callers |-> "idle"]
    /\ fetched = [c \in Callers |-> NullObj]
    /\ ret = NoResult
    /\ issued = Step("none", "none")
    /\ response = NoResponse
    /\ reported = "none"

-----------------------------------------------------------------------------
(* The money codec (app/utils/ucpTransformers.ts) *)

\* A decimal string is a sequence of characters; a minor-unit amount is an integer.
DigitChars == <<"0", "1", "2", "3", "4", "5", "6", "7", "8", "9">>

IsDigit(ch) == \E i \in 1..Len(DigitChars) : DigitChars[i] = ch

DigitValue(ch) == (CHOOSE i \in 1..Len(DigitChars) : DigitChars[i] = ch) - 1

RECURSIVE Pow10(_)
Pow10(n) == IF n = 0 THEN 1 ELSE 10 * Pow10(n - 1)

\* the value of a run of digit characters
RECURSIVE DigitsToNat(_)
DigitsToNat(s) ==
    IF s = << >> THEN 0 ELSE 10 * DigitsToNat(SubSeq(s, 1, Len(s) - 1)) + DigitValue(s[Len(s)])

\* the digit characters of a natural number
RECURSIVE NatToDigits(_)
NatToDigits(n) ==
    IF n < 10 THEN <<DigitChars[n + 1]>> ELSE Append(NatToDigits(n \div 10), DigitChars[(n % 10) + 1])

\* the length of the run of digits of s that starts at position i
RECURSIVE DigitRun(_, _)
DigitRun(s, i) == IF i <= Len(s) /\ IsDigit(s[i]) THEN 1 + DigitRun(s, i + 1) ELSE 0

CURRENCY_DECIMALS ==
    [BHD |-> 3, BIF |-> 0, CLF |-> 4, CLP |-> 0, DJF |-> 0, GNF |-> 0, IQD |-> 3, ISK |-> 0,
     JOD |-> 3, JPY |-> 0, KMF |-> 0, KRW |-> 0, KWD |-> 3, LYD |-> 3, OMR |-> 3, PYG |-> 0,
     RWF |-> 0, TND |-> 3, UGX |-> 0, VND |-> 0, VUV |-> 0, XAF |-> 0, XOF |-> 0, XPF |-> 0]

\* String.prototype.toUpperCase on the currency codes of the model
toUpperCase(code) == IF code = "jpy" THEN "JPY" ELSE IF code = "usd" THEN "USD" ELSE code

getCurrencyDecimals(currencyCode) ==
    IF toUpperCase(currencyCode) \in DOMAIN CURRENCY_DECIMALS
    THEN CURRENCY_DECIMALS[toUpperCase(currencyCode)]
    ELSE 2

\* parseFloat: the longest prefix  -? digits* (. digits*)?  that holds a digit, as the
\* exact number  sign * digits / 10^scale ; NaN when there is none
NaN == [nan |-> TRUE, sign |-> 1, digits |-> 0, scale |-> 0]

parseFloat(s) ==
    LET negative == Len(s) > 0 /\ s[1] = "-"
        start    == IF negative THEN 2 ELSE 1
        whole    == DigitRun(s, start)
        dot      == start + whole <= Len(s) /\ s[start + whole] = "."
        fraction == IF dot THEN DigitRun(s, start + whole + 1) ELSE 0
    IN  IF whole + fraction = 0
        THEN NaN
        ELSE [nan    |-> FALSE,
              sign   |-> IF negative THEN -1 ELSE 1,
              digits |-> DigitsToNat(SubSeq(s, start, start + whole - 1)
                                     \o SubSeq(s, start + whole + 1, start + whole + fraction)),
              scale  |-> fraction]

\* Math.round of numerator / denominator: the nearest integer, a half going up
MathRound(numerator, denominator) == (2 * numerator + denominator) \div (2 * denominator)

toMinorUnits(amount, currencyCode) ==
    LET decimals      == getCurrencyDecimals(currencyCode)
        numericAmount == parseFloat(amount)
        \* numericAmount * 10^decimals as a fraction, the common power of ten cancelled
        shift         == IF decimals > numericAmount.scale THEN decimals - numericAmount.scale ELSE 0
        below         == IF numericAmount.scale > decimals THEN numericAmount.scale - decimals ELSE 0
    IN  IF numericAmount.nan
        THEN 0
        ELSE MathRound(numericAmount.sign * numericAmount.digits * Pow10(shift), Pow10(below))

\* the digits of n, zero-filled on the left to width characters
RECURSIVE ZeroFilled(_, _)
ZeroFilled(digits, width) ==
    IF Len(digits) >= width THEN digits ELSE ZeroFilled(<<"0">> \o digits, width)

\* Number.prototype.toFixed of  cents / 10^decimals , which the division makes exact to
\* decimals places
toFixed(cents, decimals) ==
    LET magnitude == IF cents < 0 THEN 0 - cents ELSE cents
        whole     == NatToDigits(magnitude \div Pow10(decimals))
        fraction  == ZeroFilled(NatToDigits(magnitude % Pow10(decimals)), decimals)
    IN  (IF cents < 0 THEN <<"-">> ELSE << >>)
        \o whole
        \o (IF decimals > 0 THEN <<".">> \o fraction ELSE << >>)

\* round trips by one character: 25.00 for every amount
fromMinorUnits_TwoPlaces(cents, currencyCode) == toFixed(cents, 2)

fromMinorUnits(cents, currencyCode) == toFixed(cents, getCurrencyDecimals(currencyCode))


\* the amounts and currencies put through the codec
MaxWholeDigits == 2
MaxFractionDigits == 4
Currencies == {"USD", "jpy", "JPY", "BHD", "CLF", "EUR"}

\* the runs of lo to hi digits, each digit a 0 or a 5
DigitStrings(lo, hi) == UNION {[1..n -> {"0", "5"}] : n \in lo..hi}

Amounts ==
    {sign \o whole : sign \in {<< >>, <<"-">>}, whole \in DigitStrings(0, MaxWholeDigits)}
    \cup
    {sign \o whole \o <<".">> \o fraction :
        sign \in {<< >>, <<"-">>},
        whole \in DigitStrings(0, MaxWholeDigits),
        fraction \in DigitStrings(0, MaxFractionDigits)}

InitCodec ==
    /\ LifecycleAtRest
    /\ wire = NullObj
    /\ outbound = NullObj
    /\ rpc = NullObj
    /\ proxy = NullObj
    /\ codec \in [amount : Amounts, currency : Currencies,
                  stage : {"amount"}, units : {0}, decimal : {<< >>}]

\* the formatter's direction: a decimal string becomes minor units
applyToMinorUnits ==
    /\ codec.stage = "amount"
    /\ codec' = [codec EXCEPT !.stage = "units",
                              !.units = toMinorUnits(codec.amount, codec.currency)]
    /\ UNCHANGED <<lifecycleVars, wire, outbound, rpc, proxy>>

\* the normalizer's direction: minor units become a decimal string
applyFromMinorUnits ==
    /\ codec.stage = "units"
    /\ codec' = [codec EXCEPT !.stage = "decimal",
                              !.decimal = fromMinorUnits(codec.units, codec.currency)]
    /\ UNCHANGED <<lifecycleVars, wire, outbound, rpc, proxy>>

NextCodec ==
    \/ applyToMinorUnits
    \/ applyFromMinorUnits

SpecCodec == InitCodec /\ [][NextCodec]_vars

-----------------------------------------------------------------------------
(* Properties of the money codec *)

\* x is a decimal string:  -? digit+ (. digit+)?
IsDecimalString(x) ==
    LET start == IF Len(x) > 0 /\ x[1] = "-" THEN 2 ELSE 1
        whole == DigitRun(x, start)
        rest  == start + whole
    IN  /\ whole > 0
        /\ \/ rest = Len(x) + 1
           \/ /\ rest < Len(x)
              /\ x[rest] = "."
              /\ DigitRun(x, rest + 1) = Len(x) - rest

FractionDigits(x) == parseFloat(x).scale

\* a decimal string with no superfluous leading zero that is not a negative zero
IsCanonical(x) ==
    LET start == IF x[1] = "-" THEN 2 ELSE 1
    IN  /\ IsDecimalString(x)
        /\ DigitRun(x, start) > 1 => x[start] # "0"
        /\ x[1] = "-" => parseFloat(x).digits # 0

RoundTripped == codec # NullObj /\ codec.stage = "decimal"

-----------------------------------------------------------------------------
(* The line-item normalizer (app/utils/ucpTransformers.ts, parseUCPLineItems) *)

\* A price on the wire is dynamically typed: a number, a string, or an object.
\* The number n is [number |-> n], the string s is [string |-> s].
\* typeof value === "number"
IsJsNumber(value) == DOMAIN value = {"number"}

transformMoneyFromUCP(cents, currencyCode) ==
    [amount |-> [string |-> fromMinorUnits(cents, currencyCode)], currency_code |-> currencyCode]

ProductId == "gid://shopify/Product/1"
\* a variant reference sent in the product_id field
VariantAsProductId == "gid://shopify/ProductVariant/2"

\* product_id.includes("ProductVariant")
includesProductVariant(id) == id \in {VariantId, VariantAsProductId}

\* the price of the wire format: integer minor units
WirePrice == [number |-> 2550]
\* the price of the internal format: UCPMoney, a decimal string with its currency
MoneyPrice == [amount |-> [string |-> <<"2", "5", ".", "5", "0">>], currency_code |-> "USD"]
\* the price of the create_checkout tool schema: an object whose amount is integer minor units
ToolPrice == [amount |-> [number |-> 2550], currency_code |-> "USD"]

\* shape (a): the UCP wire format, a nested item; quantity 0 stands for a quantity left out
NestedLineItems ==
    [item : [id : {ProductId}, variant_id : {NullStr, VariantId}, price : {NullObj, WirePrice}],
     quantity : {2}]
    \cup {[item |-> [id |-> VariantAsProductId, variant_id |-> NullStr, price |-> [number |-> 0]],
           quantity |-> 0]}

\* shapes (b) and (c): the flat format, with or without variant_id
FlatLineItems ==
    [product_id : {ProductId, VariantAsProductId}, variant_id : {NullStr, VariantId},
     quantity : {1}, price : {NullObj, MoneyPrice, ToolPrice}]
    \cup {[product_id |-> VariantAsProductId, variant_id |-> "", quantity |-> 1, price |-> NullObj],
          [product_id |-> NullStr, variant_id |-> NullStr, quantity |-> 1, price |-> NullObj]}

WireLineItems == NestedLineItems \cup FlatLineItems

\* title, sku and image_url are copied as they are and are left out of the items
\* if (lineItem.item)
IsNested(lineItem) == "item" \in DOMAIN lineItem

\* the callback of body.line_items.map; the variant is never back-filled
parseLineItem_NoBackfill(lineItem, bodyCurrency) ==
    IF IsNested(lineItem)
    THEN LET item     == lineItem.item
             currency == IF TruthyStr(bodyCurrency) THEN bodyCurrency ELSE "USD"
         IN  [product_id |-> IF TruthyStr(item.id) THEN item.id ELSE "",
              variant_id |-> IF TruthyStr(item.variant_id) THEN item.variant_id
                             ELSE IF TruthyStr(item.id) THEN item.id ELSE "",
              quantity   |-> IF lineItem.quantity # 0 THEN lineItem.quantity ELSE 1,
              price      |-> IF IsJsNumber(item.price)
                             THEN transformMoneyFromUCP(item.price.number, currency)
                             ELSE item.price]
    ELSE lineItem

\* the callback of body.line_items.map
parseLineItem(lineItem, bodyCurrency) ==
    IF IsNested(lineItem)
    THEN LET item     == lineItem.item
             currency == IF TruthyStr(bodyCurrency) THEN bodyCurrency ELSE "USD"
         IN  [product_id |-> IF TruthyStr(item.id) THEN item.id ELSE "",
              variant_id |-> IF TruthyStr(item.variant_id) THEN item.variant_id
                             ELSE IF TruthyStr(item.id) THEN item.id ELSE "",
              quantity   |-> IF lineItem.quantity # 0 THEN lineItem.quantity ELSE 1,
              price      |-> IF IsJsNumber(item.price)
                             THEN transformMoneyFromUCP(item.price.number, currency)
                             ELSE item.price]
    ELSE IF /\ TruthyStr(lineItem.product_id)
            /\ ~TruthyStr(lineItem.variant_id)
            /\ includesProductVariant(lineItem.product_id)
         THEN [lineItem EXCEPT !.variant_id = lineItem.product_id]
         ELSE lineItem

parseUCPLineItems(body) ==
    IF body.line_items = AbsentList
    THEN body
    ELSE [body EXCEPT !.line_items =
            [i \in 1..Len(body.line_items) |-> parseLineItem(body.line_items[i], body.currency)]]

-----------------------------------------------------------------------------
(* The transports: REST routes and MCP tools that create or update *)

MaxLineItems == 2

\* request bodies / tool arguments: every list of line items with a fixed buyer, and every
\* combination of the optional fields with a short list.  tool_id is the checkout_id or
\* cart_id argument of an MCP tool.
Bodies ==
    [ line_items  : UNION {[1..n -> WireLineItems] : n \in 0..MaxLineItems},
      currency    : {NullStr, "JPY"},
      email       : {BuyerEmail},
      destination : {NullObj},
      billing     : {NullObj},
      tool_id     : {CheckoutId} ]
    \cup
    [ line_items  : {AbsentList, << >>,
                     <<[product_id |-> VariantAsProductId, variant_id |-> NullStr,
                        quantity |-> 1, price |-> NullObj]>>},
      currency    : {NullStr},
      email       : {NullStr, "", BuyerEmail},
      destination : {NullObj, FullAddress},
      billing     : {NullObj, FullAddress},
      tool_id     : {NullStr, CheckoutId} ]

InitWire ==
    /\ LifecycleAtRest
    /\ codec = NullObj
    /\ outbound = NullObj
    /\ rpc = NullObj
    /\ proxy = NullObj
    /\ wire \in [stage : {"received"}, path : {"none"}, raw : Bodies, calls : {<< >>},
                 request : {NullObj}, input : {NullObj}]

\* if (!ucpRequest.line_items || ucpRequest.line_items.length === 0)
NoLineItems(request) == request.line_items = AbsentList \/ Len(request.line_items) = 0

\* a REST action from request.json() to its await on the mapper, or to its 400 response
RestAction(path, mapper, request) ==
    /\ wire.stage = "received"
    /\ wire' = [wire EXCEPT
                  !.path    = path,
                  !.request = request,
                  !.calls   = IF NoLineItems(request)
                              THEN <<"parseUCPLineItems">>
                              ELSE <<"parseUCPLineItems", mapper>>,
                  !.stage   = IF NoLineItems(request) THEN "400" ELSE "mapper"]
    /\ UNCHANGED <<lifecycleVars, codec, outbound, rpc, proxy>>

\* POST /checkout-sessions
postCheckoutSessions ==
    RestAction("POST /checkout-sessions", "createCheckout", parseUCPLineItems(wire.raw))

\* PUT /checkout-sessions/:id ; the id of the route replaces any id of the body
putCheckoutSession ==
    RestAction("PUT /checkout-sessions/:id", "updateCheckout",
               [parseUCPLineItems(wire.raw) EXCEPT !.tool_id = CheckoutId])

\* POST /carts
postCarts ==
    RestAction("POST /carts", "createCart", parseUCPLineItems(wire.raw))

\* PUT /carts/:id
putCart ==
    RestAction("PUT /carts/:id", "updateCart",
               [parseUCPLineItems(wire.raw) EXCEPT !.tool_id = CheckoutId])

\* a tool of MCPService.handleToolCall from its entry to its await on the mapper, or to
\* its throw when the id argument is required and missing
ToolAction(tool, mapper, needsId, request) ==
    /\ wire.stage = "received"
    /\ wire' = [wire EXCEPT
                  !.path    = tool,
                  !.request = request,
                  !.calls   = IF needsId /\ ~TruthyStr(request.tool_id)
                              THEN <<"parseUCPLineItems">>
                              ELSE <<"parseUCPLineItems", mapper>>,
                  !.stage   = IF needsId /\ ~TruthyStr(request.tool_id) THEN "thrown" ELSE "mapper"]
    /\ UNCHANGED <<lifecycleVars, codec, outbound, rpc, proxy>>

\* the second variant back-fill of create_checkout, on the normalized items
BackfillVariant(item) ==
    IF /\ TruthyStr(item.product_id)
       /\ includesProductVariant(item.product_id)
       /\ ~TruthyStr(item.variant_id)
    THEN [item EXCEPT !.variant_id = item.product_id]
    ELSE item

mcpCreateCheckout ==
    LET transformedArgs == parseUCPLineItems(wire.raw)
    IN  ToolAction("create_checkout", "createCheckout", FALSE,
                   IF transformedArgs.line_items = AbsentList
                   THEN transformedArgs
                   ELSE [transformedArgs EXCEPT !.line_items =
                           [i \in 1..Len(transformedArgs.line_items) |->
                               BackfillVariant(transformedArgs.line_items[i])]])

mcpUpdateCheckout ==
    ToolAction("update_checkout", "updateCheckout", TRUE, parseUCPLineItems(wire.raw))

\* create_cart handing the tool arguments to the mapper as they came
mcpCreateCart_Unnormalized ==
    /\ wire.stage = "received"
    /\ wire' = [wire EXCEPT !.path = "create_cart", !.request = wire.raw,
                            !.calls = <<"createCart">>, !.stage = "mapper"]
    /\ UNCHANGED <<lifecycleVars, codec, outbound, rpc, proxy>>

mcpCreateCart ==
    ToolAction("create_cart", "createCart", FALSE, parseUCPLineItems(wire.raw))

mcpUpdateCart ==
    ToolAction("update_cart", "updateCart", TRUE, parseUCPLineItems(wire.raw))

\* the mapper the transport awaits
Awaited(mapper) == wire.stage = "mapper" /\ wire.calls[Len(wire.calls)] = mapper

\* a mapper from its entry to its await on the backend mutation: it sends input, or throws
\* a TypeError on request.line_items.map when line_items is missing
MapperSends(needsLineItems, input) ==
    /\ wire' = [wire EXCEPT
                  !.stage = IF needsLineItems /\ wire.request.line_items = AbsentList
                            THEN "thrown" ELSE "sent",
                  !.input = IF needsLineItems /\ wire.request.line_items = AbsentList
                            THEN NullObj ELSE input]
    /\ UNCHANGED <<lifecycleVars, codec, outbound, rpc, proxy>>

\* CheckoutService.createCheckout up to draftOrderCreate
createCheckoutSend ==
    /\ Awaited("createCheckout")
    /\ MapperSends(TRUE, CheckoutInput(wire.request))

\* CheckoutService.updateCheckout up to draftOrderUpdate
updateCheckoutSend ==
    /\ Awaited("updateCheckout")
    /\ MapperSends(FALSE, CheckoutInput(wire.request))

\* CartService.createCart up to draftOrderCreate
createCartSend ==
    /\ Awaited("createCart")
    /\ MapperSends(TRUE, CartInput(wire.request))

\* CartService.updateCart up to draftOrderUpdate
updateCartSend ==
    /\ Awaited("updateCart")
    /\ MapperSends(TRUE, CartInput(wire.request))

NextWire ==
    \/ postCheckoutSessions
    \/ putCheckoutSession
    \/ postCarts
    \/ putCart
    \/ mcpCreateCheckout
    \/ mcpUpdateCheckout
    \/ mcpCreateCart
    \/ mcpUpdateCart
    \/ createCheckoutSend
    \/ updateCheckoutSend
    \/ createCartSend
    \/ updateCartSend

SpecWire == InitWire /\ [][NextWire]_vars

-----------------------------------------------------------------------------
(* Properties of the transports, the normalizer and the mutation inputs *)

\* a mapper has sent its mutation
Sent(mapper) ==
    wire # NullObj /\ wire.stage = "sent" /\ wire.calls[Len(wire.calls)] = mapper

\* the transport has handed a request to a mapper
MapperReached == wire # NullObj /\ wire.stage \in {"mapper", "sent"}

\* C11: the input updateCheckout sends holds lineItems iff line_items was supplied (the
\* whole supplied list), email iff a buyer email was supplied, shippingAddress iff a
\* fulfillment destination was supplied, billingAddress iff a billing address was
\* supplied, and nothing the caller left out.
C11_UpdateSendsOnlySupplied ==
    Sent("updateCheckout") =>
        /\ (wire.input.lineItems # AbsentList) <=> (wire.raw.line_items # AbsentList)
        /\ wire.input.lineItems # AbsentList =>
              /\ Len(wire.input.lineItems) = Len(wire.raw.line_items)
              /\ \A i \in 1..Len(wire.raw.line_items) :
                    wire.input.lineItems[i] = transformLineItemToShopify(wire.request.line_items[i])
        /\ wire.input.email = (IF TruthyStr(wire.raw.email) THEN wire.raw.email ELSE NullStr)
        /\ (wire.input.shippingAddress # NullObj) <=> (wire.raw.destination # NullObj)
        /\ wire.input.shippingAddress # NullObj =>
              wire.input.shippingAddress = transformAddressToShopify(wire.raw.destination)
        /\ (wire.input.billingAddress # NullObj) <=> (wire.raw.billing # NullObj)
        /\ wire.input.billingAddress # NullObj =>
              wire.input.billingAddress = transformAddressToShopify(wire.raw.billing)

\* update_checkout with a billing address and nothing else sent exactly that
C11_Witness ==
    /\ Sent("updateCheckout")
    /\ wire.raw.line_items = AbsentList
    /\ wire.raw.email = NullStr
    /\ wire.raw.destination = NullObj
    /\ wire.raw.billing = FullAddress
    /\ wire.input = [lineItems |-> AbsentList, email |-> NullStr, shippingAddress |-> NullObj,
                     billingAddress |-> transformAddressToShopify(FullAddress)]

\* C12: on each of the eight create/update paths the mapper is called after
\* parseUCPLineItems, with the normalized line items of the request body.
C12_NormalizedBeforeMapper ==
    MapperReached =>
        /\ Len(wire.calls) = 2
        /\ wire.calls[1] = "parseUCPLineItems"
        /\ wire.request.line_items = parseUCPLineItems(wire.raw).line_items

\* create_cart was handed wire-format items, and the cart mapper got them normalized
C12_Witness ==
    /\ MapperReached
    /\ wire.path = "create_cart"
    /\ wire.raw.line_items # AbsentList
    /\ Len(wire.raw.line_items) > 0
    /\ \A i \in 1..Len(wire.raw.line_items) : IsNested(wire.raw.line_items[i])
    /\ wire.request.line_items # wire.raw.line_items
    /\ wire.calls = <<"parseUCPLineItems", "createCart">>

\* a price is a decimal-string Money
IsDecimalMoney(price) ==
    /\ DOMAIN price = {"amount", "currency_code"}
    /\ DOMAIN price.amount = {"string"}
    /\ IsDecimalString(price.amount.string)

\* C13: every line-item price that reaches a mapper is absent or a decimal-string Money;
\* no raw minor-unit number gets through, whatever the shape of the incoming item.
C13_OnlyDecimalPricesReachMapper ==
    (MapperReached /\ wire.request.line_items # AbsentList) =>
        \A i \in 1..Len(wire.request.line_items) :
            \/ wire.request.line_items[i].price = NullObj
            \/ IsDecimalMoney(wire.request.line_items[i].price)

\* the flat items that the back-fill is for
NeedsBackfill(lineItem) ==
    /\ ~IsNested(lineItem)
    /\ includesProductVariant(lineItem.product_id)
    /\ ~TruthyStr(lineItem.variant_id)

\* the transport has normalized a body that has line items
Normalized == wire # NullObj /\ wire.stage # "received" /\ wire.raw.line_items # AbsentList

\* C14: a flat line item with the ProductVariant marker in product_id and no variant_id
\* comes out with variant_id = product_id and its other fields as they were; any other
\* flat line item comes out unchanged.
C14_VariantBackfilledFromProductId ==
    Normalized =>
        \A i \in 1..Len(wire.raw.line_items) :
            LET lineItem == wire.raw.line_items[i]
            IN  ~IsNested(lineItem) =>
                    wire.request.line_items[i] =
                        IF NeedsBackfill(lineItem)
                        THEN [lineItem EXCEPT !.variant_id = lineItem.product_id]
                        ELSE lineItem

\* PUT /carts/:id normalized a priced flat item that named its variant in product_id
C14_Witness ==
    /\ Normalized
    /\ wire.path = "PUT /carts/:id"
    /\ Len(wire.raw.line_items) = 1
    /\ NeedsBackfill(wire.raw.line_items[1])
    /\ wire.raw.line_items[1].price = MoneyPrice
    /\ wire.request.line_items[1].variant_id = VariantAsProductId
    /\ wire.request.line_items[1].price = MoneyPrice

-----------------------------------------------------------------------------
(* Money and time in the mappers: totals, line-item prices, expires_at *)

\* { shopMoney { amount currencyCode } } of a price set; NullObj when the record has none
PriceSet(amount, currencyCode) == [shopMoney |-> [amount |-> amount, currencyCode |-> currencyCode]]

\* the price sets of a backend record: none, or the zero or a positive amount as the
\* backend writes it in the currency
PriceSets(currencyCode) ==
    {NullObj} \cup
    {PriceSet(amount, currencyCode) :
        amount \in IF getCurrencyDecimals(currencyCode) = 0
                   THEN {<<"0">>, <<"2", "5", "5", "0">>}
                   ELSE {<<"0", ".", "0">>, <<"2", "5", ".", "5">>}}

\* priceSet?.shopMoney?.amount || "0"
AmountOr0(priceSet) == IF TruthyObj(priceSet) THEN priceSet.shopMoney.amount ELSE <<"0">>

\* priceSet?.shopMoney?.currencyCode || "USD"
CurrencyCodeOrUSD(priceSet) == IF TruthyObj(priceSet) THEN priceSet.shopMoney.currencyCode ELSE "USD"

\* one UCPTotal: a total with no backend value is left out
Total_SkipsAbsent(type, priceSet, currency) ==
    IF TruthyObj(priceSet)
    THEN <<[type |-> type, amount |-> [amount |-> AmountOr0(priceSet), currency_code |-> currency]]>>
    ELSE << >>

\* one UCPTotal of a totals array
Total(type, priceSet, currency) ==
    <<[type |-> type, amount |-> [amount |-> AmountOr0(priceSet), currency_code |-> currency]]>>

\* const totals: UCPTotal[] of transformShopifyDraftOrderToUCPCheckout
CheckoutTotals(draftOrder) ==
    LET currency == CurrencyCodeOrUSD(draftOrder.totalPriceSet)
    IN  Total("subtotal", draftOrder.subtotalPriceSet, currency)
        \o Total("tax", draftOrder.totalTaxSet, currency)
        \o Total("shipping", draftOrder.totalShippingPriceSet, currency)
        \o Total("discount", draftOrder.totalDiscountsSet, currency)
        \o Total("total", draftOrder.totalPriceSet, currency)

\* const totals: UCPTotal[] of transformShopifyDraftOrderToUCPCart
CartTotals(draftOrder) ==
    LET currency == CurrencyCodeOrUSD(draftOrder.totalPriceSet)
    IN  Total("subtotal", draftOrder.subtotalPriceSet, currency)
        \o Total("tax", draftOrder.totalTaxSet, currency)
        \o Total("total", draftOrder.totalPriceSet, currency)

\* const totals: UCPTotal[] of transformShopifyOrderToUCP
OrderTotals(order) ==
    LET currency == CurrencyCodeOrUSD(order.totalPriceSet)
    IN  Total("subtotal", order.subtotalPriceSet, currency)
        \o Total("tax", order.totalTaxSet, currency)
        \o Total("shipping", order.totalShippingPriceSet, currency)
        \o Total("discount", order.totalDiscountsSet, currency)
        \o Total("total", order.totalPriceSet, currency)

\* lineItems { edges { node { quantity variant { id product { id } } originalUnitPriceSet } } }
LineItemNodes(currencyCode) ==
    [ quantity             : {1, 3},
      variant              : {[id |-> VariantId, product |-> [id |-> ProductId]]},
      originalUnitPriceSet : PriceSets(currencyCode) ]

\* transformShopifyLineItemToUCP / transformShopifyLineItemToUCPOrder
transformShopifyLineItemToUCP(node) ==
    [ product_id |-> node.variant.product.id,
      variant_id |-> node.variant.id,
      quantity   |-> node.quantity,
      price      |-> [amount        |-> AmountOr0(node.originalUnitPriceSet),
                      currency_code |-> CurrencyCodeOrUSD(node.originalUnitPriceSet)] ]

MappedLineItems(record) ==
    [i \in 1..Len(record.lineItems) |-> transformShopifyLineItemToUCP(record.lineItems[i])]

\* An instant is a whole number of hours; an ISO string names an instant in UTC.
IsoString(instant) == [iso |-> instant]

\* The time zone of the server: its UTC offset in hours before and after one change of
\* offset at the instant `at`.
\* UTC, a zone that moves its clocks forward, and one that moves them back.
Zones ==
    {[at |-> 0, before |-> 0, after |-> 0],
     [at |-> 30, before |-> 0 - 5, after |-> 0 - 4],
     [at |-> 30, before |-> 0 - 4, after |-> 0 - 5]}

\* the local (wall-clock) hour count of an instant
LocalTime(zone, instant) == instant + (IF instant < zone.at THEN zone.before ELSE zone.after)

\* the instant of a local hour count; a local time that the change of offset skips or
\* repeats is read with the offset before the change
UTC(zone, local) ==
    IF local - zone.before >= zone.at /\ local - zone.after >= zone.at
    THEN local - zone.after
    ELSE local - zone.before

CHECKOUT_TTL_HOURS == 24

\* createdDate.setHours(createdDate.getHours() + CHECKOUT_TTL_HOURS); toISOString()
expiresAt(draftOrder, status, zone) ==
    IF status # "completed" /\ status # "canceled" /\ TruthyObj(draftOrder.createdAt)
    THEN IsoString(UTC(zone, LocalTime(zone, draftOrder.createdAt.iso) + CHECKOUT_TTL_HOURS))
    ELSE NullObj

\* the backend draft orders and orders, by what the mappers read of money and time: the
\* fields of the lifecycle (draftOrder) and the price sets, creation time and line items
MaxNodes == 1

StatusDrafts ==
    {d \in Drafts : /\ d.invoiceUrl = InvoiceUrl
                    /\ d.billingAddress = NullObj
                    /\ d.shippingAddress \in {NullObj, FullAddress}
                    /\ d.lineItems # << >>}

MoneyRecords ==
    UNION {[ draftOrder            : {CHOOSE d \in StatusDrafts :
                                         mapShopifyStatusToUCP(d) = "ready_for_complete"},
             createdAt             : {IsoString(0)},
             subtotalPriceSet      : PriceSets(c),
             totalTaxSet           : PriceSets(c),
             totalShippingPriceSet : PriceSets(c),
             totalDiscountsSet     : PriceSets(c),
             totalPriceSet         : PriceSets(c),
             lineItems             : UNION {[1..n -> LineItemNodes(c)] : n \in 0..MaxNodes} ]
           : c \in {"USD", "JPY"}}

TimeRecords ==
    [ draftOrder            : StatusDrafts,
      createdAt             : {IsoString(0), IsoString(20)},
      subtotalPriceSet      : {PriceSet(<<"2", "5", ".", "5">>, "USD")},
      totalTaxSet           : {PriceSet(<<"0", ".", "0">>, "USD")},
      totalShippingPriceSet : {PriceSet(<<"0", ".", "0">>, "USD")},
      totalDiscountsSet     : {PriceSet(<<"0", ".", "0">>, "USD")},
      totalPriceSet         : {PriceSet(<<"2", "5", ".", "5">>, "USD")},
      lineItems             : {<< >>} ]

\* the whole checkout: the lifecycle's fields, with the money and time fields beside them
MappedCheckout(record, zone) ==
    LET checkout == transformShopifyDraftOrderToUCPCheckout(record.draftOrder)
    IN  [ line_items |-> MappedLineItems(record),
          currency   |-> CurrencyCodeOrUSD(record.totalPriceSet),
          totals     |-> CheckoutTotals(record),
          expires_at |-> expiresAt(record, checkout.status, zone) ] @@ checkout

MappedCart(record) ==
    [ line_items |-> MappedLineItems(record),
      currency   |-> CurrencyCodeOrUSD(record.totalPriceSet),
      totals     |-> CartTotals(record) ] @@ transformShopifyDraftOrderToUCPCart(record.draftOrder)

\* transformShopifyOrderToUCP, its money: UCPOrder has no currency field
MappedOrder(record) ==
    [ id         |-> LinkedOrder.id,
      line_items |-> MappedLineItems(record),
      totals     |-> OrderTotals(record) ]

-----------------------------------------------------------------------------
(* The response formatter (app/utils/ucpTransformers.ts) *)

\* the envelope of a line item whose line total is the unit price
transformLineItemToUCP_UnitTotal(lineItem) ==
    LET price == IF TruthyObj(lineItem.price)
                 THEN toMinorUnits(lineItem.price.amount, lineItem.price.currency_code)
                 ELSE 0
    IN  [ id       |-> IF TruthyStr(lineItem.variant_id) THEN lineItem.variant_id
                       ELSE lineItem.product_id,
          item     |-> [id |-> lineItem.product_id, variant_id |-> lineItem.variant_id,
                        price |-> price],
          quantity |-> lineItem.quantity,
          totals   |-> IF price > 0
                       THEN <<[type |-> "line_total", amount |-> price]>>
                       ELSE << >> ]

\* the envelope of a line item; totals << >> stands for undefined
transformLineItemToUCP(lineItem) ==
    LET price == IF TruthyObj(lineItem.price)
                 THEN toMinorUnits(lineItem.price.amount, lineItem.price.currency_code)
                 ELSE 0
    IN  [ id       |-> IF TruthyStr(lineItem.variant_id) THEN lineItem.variant_id
                       ELSE lineItem.product_id,
          item     |-> [id |-> lineItem.product_id, variant_id |-> lineItem.variant_id,
                        price |-> price],
          quantity |-> lineItem.quantity,
          totals   |-> IF price > 0
                       THEN <<[type |-> "line_total", amount |-> price * lineItem.quantity]>>
                       ELSE << >> ]

FormattedLineItems(entity) ==
    [i \in 1..Len(entity.line_items) |-> transformLineItemToUCP(entity.line_items[i])]

transformTotalsToUCP(totals) ==
    [i \in 1..Len(totals) |->
        [type   |-> totals[i].type,
         amount |-> toMinorUnits(totals[i].amount.amount, totals[i].amount.currency_code)]]

\* checkout.expires_at || new Date(Date.now() + 24h).toISOString(), always from the clock
formatExpiresAt_AlwaysNow(checkout, now) == IsoString(now + 24)

\* checkout.expires_at || new Date(Date.now() + 24 * 60 * 60 * 1000).toISOString()
formatExpiresAt(checkout, now) ==
    IF TruthyObj(checkout.expires_at) THEN checkout.expires_at ELSE IsoString(now + 24)

formatUCPCheckoutResponse(checkout, now) ==
    [ id           |-> checkout.id,
      status       |-> checkout.status,
      currency     |-> IF TruthyStr(checkout.currency) THEN checkout.currency ELSE "USD",
      expires_at   |-> formatExpiresAt(checkout, now),
      line_items   |-> FormattedLineItems(checkout),
      totals       |-> transformTotalsToUCP(checkout.totals),
      buyer        |-> checkout.buyer,
      messages     |-> checkout.messages,
      links        |-> checkout.links,
      continue_url |-> checkout.continue_url,
      order        |-> checkout.order ]

formatUCPCartResponse(cart) ==
    [ id           |-> cart.id,
      currency     |-> IF TruthyStr(cart.currency) THEN cart.currency ELSE "USD",
      line_items   |-> FormattedLineItems(cart),
      totals       |-> transformTotalsToUCP(cart.totals),
      buyer        |-> cart.buyer,
      continue_url |-> cart.continue_url ]

formatUCPOrderResponse(order) ==
    [ id         |-> order.id,
      line_items |-> FormattedLineItems(order),
      totals     |-> transformTotalsToUCP(order.totals) ]

\* Date.now() when a response is formatted
Nows == {21, 50}

InitOutbound ==
    /\ LifecycleAtRest
    /\ codec = NullObj
    /\ wire = NullObj
    /\ rpc = NullObj
    /\ proxy = NullObj
    /\ \E record \in MoneyRecords \cup TimeRecords, zone \in Zones :
          /\ record \in MoneyRecords => zone.before = zone.after
          /\ outbound = [stage |-> "record", kind |-> "none", zone |-> zone, record |-> record,
                         entity |-> NullObj, now |-> 0, formatted |-> NullObj]

MapperReturns(kind, entity) ==
    /\ outbound.stage = "record"
    /\ outbound' = [outbound EXCEPT !.stage = "mapped", !.kind = kind, !.entity = entity]
    /\ UNCHANGED <<lifecycleVars, codec, wire, rpc, proxy>>

FormatterReturns(kind, now, formatted) ==
    /\ outbound.stage = "mapped"
    /\ outbound.kind = kind
    /\ outbound' = [outbound EXCEPT !.stage = "formatted", !.now = now, !.formatted = formatted]
    /\ UNCHANGED <<lifecycleVars, codec, wire, rpc, proxy>>

\* the checkout mapper on a draft order the backend returned
mapCheckout == MapperReturns("checkout", MappedCheckout(outbound.record, outbound.zone))

\* the cart mapper on a draft order the backend returned
mapCart == MapperReturns("cart", MappedCart(outbound.record))

\* the order mapper on an order the backend returned
mapOrder == MapperReturns("order", MappedOrder(outbound.record))

formatCheckout ==
    \E now \in Nows : FormatterReturns("checkout", now, formatUCPCheckoutResponse(outbound.entity, now))

formatCart == FormatterReturns("cart", 0, formatUCPCartResponse(outbound.entity))

formatOrder == FormatterReturns("order", 0, formatUCPOrderResponse(outbound.entity))

NextOutbound ==
    \/ mapCheckout
    \/ mapCart
    \/ mapOrder
    \/ formatCheckout
    \/ formatCart
    \/ formatOrder

SpecOutbound == InitOutbound /\ [][NextOutbound]_vars

-----------------------------------------------------------------------------
(* Properties of the mappers' money and time and of the response formatter *)

EntityMapped == outbound # NullObj /\ outbound.stage \in {"mapped", "formatted"}
ResponseFormatted == outbound # NullObj /\ outbound.stage = "formatted"

FiveTotals == <<"subtotal", "tax", "shipping", "discount", "total">>
ThreeTotals == <<"subtotal", "tax", "total">>

\* the price set of the backend record that a total of the given type reports
PriceSetOf(record, type) ==
    CASE type = "subtotal" -> record.subtotalPriceSet
      [] type = "tax"      -> record.totalTaxSet
      [] type = "shipping" -> record.totalShippingPriceSet
      [] type = "discount" -> record.totalDiscountsSet
      [] type = "total"    -> record.totalPriceSet

\* the totals of the mapped entity are exactly those of the given types, in that order,
\* each with the backend's amount ("0" when the backend has none) in the entity's currency
CarriesTotals(types) ==
    LET totals   == outbound.entity.totals
        currency == CurrencyCodeOrUSD(outbound.record.totalPriceSet)
    IN  /\ Len(totals) = Len(types)
        /\ \A i \in 1..Len(types) :
              /\ totals[i].type = types[i]
              /\ totals[i].amount.currency_code = currency
              /\ totals[i].amount.amount =
                    (IF PriceSetOf(outbound.record, types[i]) = NullObj
                     THEN <<"0">>
                     ELSE PriceSetOf(outbound.record, types[i]).shopMoney.amount)

\* C16 as stated: every cart, checkout and order carries exactly the ordered totals
\* subtotal, tax, shipping, discount, total, each present even when the backend value is
\* absent or zero, all in the entity's currency.
C16_FiveTotalsOnEveryEntity ==
    EntityMapped => CarriesTotals(FiveTotals)

\* C16 amended: every checkout and order carries exactly the ordered totals subtotal, tax,
\* shipping, discount, total, and every cart exactly subtotal, tax, total; each is present
\* even when the backend value is absent or zero, all in the entity's currency.
C16_FiveTotalsButThreeOnCarts ==
    EntityMapped =>
        CarriesTotals(IF outbound.kind = "cart" THEN ThreeTotals ELSE FiveTotals)

\* a JPY order with no shipping and no discount price set carries both as "0" JPY
C16_Witness ==
    /\ EntityMapped
    /\ outbound.kind = "order"
    /\ outbound.record.totalShippingPriceSet = NullObj
    /\ outbound.record.totalDiscountsSet = NullObj
    /\ outbound.record.totalPriceSet = PriceSet(<<"2", "5", "5", "0">>, "JPY")
    /\ outbound.entity.totals[3] = [type |-> "shipping", amount |-> [amount |-> <<"0">>, currency_code |-> "JPY"]]
    /\ outbound.entity.totals[4] = [type |-> "discount", amount |-> [amount |-> <<"0">>, currency_code |-> "JPY"]]

\* the unit price of a mapped line item in minor units
MinorUnitPrice(lineItem) == toMinorUnits(lineItem.price.amount, lineItem.price.currency_code)

\* every entity total of the response is the mapper's total in integer minor units
TotalsInMinorUnits ==
    /\ Len(outbound.formatted.totals) = Len(outbound.entity.totals)
    /\ \A i \in 1..Len(outbound.entity.totals) :
          /\ outbound.formatted.totals[i].type = outbound.entity.totals[i].type
          /\ outbound.formatted.totals[i].amount \in Int
          /\ outbound.formatted.totals[i].amount =
                toMinorUnits(outbound.entity.totals[i].amount.amount,
                             outbound.entity.totals[i].amount.currency_code)

\* the i-th line item of the response is the envelope of the i-th mapped line item
IsEnvelope(i) ==
    LET lineItem == outbound.entity.line_items[i]
        envelope == outbound.formatted.line_items[i]
    IN  /\ DOMAIN envelope = {"id", "item", "quantity", "totals"}
        /\ envelope.id = lineItem.variant_id
        /\ envelope.item.price = MinorUnitPrice(lineItem)
        /\ envelope.quantity = lineItem.quantity

LineTotal(i) ==
    <<[type |-> "line_total",
       amount |-> MinorUnitPrice(outbound.entity.line_items[i]) * outbound.entity.line_items[i].quantity]>>

CheckoutMapped == EntityMapped /\ outbound.kind = "checkout"

\* C18: a mapped checkout carries expires_at iff its status is neither completed nor
\* canceled, and then expires_at is the instant 24 hours after createdAt (a function of
\* the record alone, so the same on every read of an unchanged draft).
C18_ExpiresAtIsCreatedAtPlus24h ==
    CheckoutMapped =>
        /\ (outbound.entity.expires_at # NullObj)
              <=> (outbound.entity.status \notin {"completed", "canceled"})
        /\ outbound.entity.expires_at # NullObj =>
              outbound.entity.expires_at = IsoString(outbound.record.createdAt.iso + 24)

CheckoutFormatted == ResponseFormatted /\ outbound.kind = "checkout"

\* C19: the formatted checkout carries the mapper's expires_at when the mapper set one
\* and now + 24h otherwise, so it always carries one, a completed checkout included.
C19_ExpiresAtPassedOrBackfilled ==
    CheckoutFormatted =>
        /\ outbound.formatted.expires_at # NullObj
        /\ outbound.formatted.expires_at =
              (IF outbound.entity.expires_at # NullObj
               THEN outbound.entity.expires_at
               ELSE IsoString(outbound.now + 24))

\* a completed checkout, for which the mapper set no expires_at, is formatted with now + 24h
C19_Witness ==
    /\ CheckoutFormatted
    /\ outbound.entity.status = "completed"
    /\ outbound.entity.expires_at = NullObj
    /\ outbound.now = 50
    /\ outbound.formatted.expires_at = IsoString(74)

-----------------------------------------------------------------------------
(* Request metadata: validateUCPMeta (app/utils/ucpMiddleware.ts) *)

HexChars ==
    {"0", "1", "2", "3", "4", "5", "6", "7", "8", "9",
     "a", "b", "c", "d", "e", "f", "A", "B", "C", "D", "E", "F"}

Repeat(class, n) == [i \in 1..n |-> class]

\* /^[0-9a-f]{8}-[0-9a-f]{4}-[0-9a-f][0-9a-f]{3}-[89ab][0-9a-f]{3}-[0-9a-f]{12}$/i , a
\* pattern that takes any version digit
UUID_REGEX_AnyVersion ==
    Repeat(HexChars, 8) \o <<{"-"}>> \o Repeat(HexChars, 4) \o <<{"-"}>>
    \o <<HexChars>> \o Repeat(HexChars, 3) \o <<{"-"}>>
    \o <<{"8", "9", "a", "b", "A", "B"}>> \o Repeat(HexChars, 3) \o <<{"-"}>>
    \o Repeat(HexChars, 12)

\* /^[0-9a-f]{8}-[0-9a-f]{4}-4[0-9a-f]{3}-[89ab][0-9a-f]{3}-[0-9a-f]{12}$/i as the
\* character class of each position
UUID_REGEX ==
    Repeat(HexChars, 8) \o <<{"-"}>> \o Repeat(HexChars, 4) \o <<{"-"}>>
    \o <<{"4"}>> \o Repeat(HexChars, 3) \o <<{"-"}>>
    \o <<{"8", "9", "a", "b", "A", "B"}>> \o Repeat(HexChars, 3) \o <<{"-"}>>
    \o Repeat(HexChars, 12)

\* UUID_REGEX.test(value)
isValidUUID(value) ==
    /\ Len(value) = Len(UUID_REGEX)
    /\ \A i \in 1..Len(value) : value[i] \in UUID_REGEX[i]

\* json({status: "canceled", messages: [{type: "error", code, ...}]}, {status: 400})
ErrorResponse(code) == [valid |-> FALSE, status |-> 400, code |-> code]

\* the idempotency-key of a meta object that has none, or an empty one
NoKey == << >>

validateUCPMeta(body, requireIdempotencyKey) ==
    LET meta == IF body = NullObj THEN NullObj ELSE body.meta
    IN  IF requireIdempotencyKey
        THEN IF meta = NullObj \/ meta.idempotency_key = NoKey
             THEN ErrorResponse("missing_idempotency_key")
             ELSE IF ~isValidUUID(meta.idempotency_key)
                  THEN ErrorResponse("invalid_idempotency_key")
                  ELSE [valid |-> TRUE, meta |-> meta, idempotencyKey |-> meta.idempotency_key]
        ELSE [valid |-> TRUE, meta |-> meta, idempotencyKey |-> NoKey]

\* the keys put to the validator: 550e8400-e29b-41d4-a716-446655440000 with its first
\* character, first dash, version digit and variant digit varied, whole, cut short by its
\* last character, or with one character more
SampleKeys ==
    {<<first, "5", "0", "e", "8", "4", "0", "0", dash,
       "e", "2", "9", "b", "-",
       version, "1", "d", "4", "-",
       variant, "7", "1", "6", "-",
       "4", "4", "6", "6", "5", "5", "4", "4", "0", "0", "0">> \o tail :
        first \in {"5", "F", "g"},
        dash \in {"-", "_"},
        version \in {"4", "1"},
        variant \in {"8", "9", "a", "b", "A", "B", "7", "c"},
        tail \in {<<"0">>, << >>, <<"0", "0">>}}

MetaBodies ==
    {NullObj, [meta |-> NullObj]}
    \cup {[meta |-> [idempotency_key |-> key]] : key \in {NoKey} \cup SampleKeys}

InitMeta ==
    /\ LifecycleAtRest
    /\ codec = NullObj
    /\ outbound = NullObj
    /\ rpc = NullObj
    /\ proxy = NullObj
    /\ wire \in [stage : {"received"}, body : MetaBodies, requireIdempotencyKey : BOOLEAN,
                 result : {NullObj}]

\* the complete and cancel routes (required key) or any other caller put the body to the
\* validator
validateMeta ==
    /\ wire.stage = "received"
    /\ wire' = [wire EXCEPT !.stage = "validated",
                            !.result = validateUCPMeta(wire.body, wire.requireIdempotencyKey)]
    /\ UNCHANGED <<lifecycleVars, codec, outbound, rpc, proxy>>

NextMeta == validateMeta

SpecMeta == InitMeta /\ [][NextMeta]_vars

-----------------------------------------------------------------------------
(* Properties of validateUCPMeta *)

IsHexDigits(s) == \A i \in 1..Len(s) : s[i] \in HexChars

\* a UUID v4 in its text form: five groups of 8, 4, 4, 4 and 12 hex digits joined by
\* dashes, the third group starting with the version 4, the fourth with 8, 9, a or b
IsUuidV4(key) ==
    /\ Len(key) = 36
    /\ IsHexDigits(SubSeq(key, 1, 8)) /\ key[9] = "-"
    /\ IsHexDigits(SubSeq(key, 10, 13)) /\ key[14] = "-"
    /\ key[15] = "4" /\ IsHexDigits(SubSeq(key, 16, 18)) /\ key[19] = "-"
    /\ key[20] \in {"8", "9", "a", "b", "A", "B"}
    /\ IsHexDigits(SubSeq(key, 21, 23)) /\ key[24] = "-"
    /\ IsHexDigits(SubSeq(key, 25, 36))

KeyRequired == wire # NullObj /\ wire.stage = "validated" /\ wire.requireIdempotencyKey

HasMeta(body) == body # NullObj /\ body.meta # NullObj

\* C20: with requireIdempotencyKey = true, validateUCPMeta returns valid: true with the
\* key iff the body has a meta object whose idempotency-key is a well-formed UUID v4; a
\* missing meta, a missing key and a malformed key each give a 400 error Response.
C20_ValidIffUuidV4Key ==
    KeyRequired =>
        IF HasMeta(wire.body) /\ IsUuidV4(wire.body.meta.idempotency_key)
        THEN /\ wire.result.valid
             /\ wire.result.idempotencyKey = wire.body.meta.idempotency_key
             /\ wire.result.meta = wire.body.meta
        ELSE /\ ~wire.result.valid
             /\ wire.result.status = 400
             /\ wire.result.code =
                   (IF HasMeta(wire.body) /\ wire.body.meta.idempotency_key # NoKey
                    THEN "invalid_idempotency_key" ELSE "missing_idempotency_key")

\* a version-1 UUID, well-formed otherwise, was refused as malformed
C20_Witness ==
    /\ KeyRequired
    /\ HasMeta(wire.body)
    /\ Len(wire.body.meta.idempotency_key) = 36
    /\ wire.body.meta.idempotency_key[15] = "1"
    /\ isValidUUID([wire.body.meta.idempotency_key EXCEPT ![15] = "4"])
    /\ wire.result = ErrorResponse("invalid_idempotency_key")

-----------------------------------------------------------------------------
(* The JSON-RPC endpoint POST /api/mcp (app/routes/orders.ts) *)

\* the sibling variables of rpc, which the endpoint leaves alone
rpcFrame == <<store, pc, fetched, ret, issued, response, reported, codec, wire, outbound, proxy>>

MaxBatch == 2

Methods == {"initialize", "tools/list", "ping", "tools/call", "notifications/initialized"}

\* a JSON-RPC request: its id is its position in the body
BatchesOf(n) == {[i \in 1..n |-> [id |-> i, method |-> f[i]]] : f \in [1..n -> Methods]}

\* request.json(): a body that is no JSON, one request, or an array of requests
McpBodies ==
    {[json |-> FALSE, isArray |-> FALSE, requests |-> << >>]}
    \cup {[json |-> TRUE, isArray |-> FALSE, requests |-> b] : b \in BatchesOf(1)}
    \cup UNION {{[json |-> TRUE, isArray |-> TRUE, requests |-> b] : b \in BatchesOf(n)}
                : n \in 0..MaxBatch}

\* what the request carries for authenticateUCP: the answer of shopify.authenticate.admin,
\* whether prisma finds an offline session and whether the session storage loads it
Credentials ==
    [ admin       : {"ok", "redirect", "error"},
      sessionData : BOOLEAN,
      session     : BOOLEAN ]

\* TRUE when authenticateUCP returns an admin client, FALSE when it throws
authenticateUCP(credentials) ==
    IF credentials.admin = "ok" THEN TRUE
    ELSE IF credentials.admin = "redirect"
         THEN credentials.sessionData /\ credentials.session
    ELSE FALSE

isPublicMethod(method) == method \in {"initialize", "tools/list", "ping"}

JsonRpcResult(id, result) == [id |-> id, kind |-> "result", result |-> result, code |-> 0]
JsonRpcError(id, code, message) == [id |-> id, kind |-> "error", result |-> message, code |-> code]

handlePublicMethod(request) ==
    CASE request.method = "initialize" ->
            JsonRpcResult(request.id, "serverInfo {name, version}")
      [] request.method = "tools/list" -> JsonRpcResult(request.id, "MCP_TOOLS")
      [] request.method = "ping"       -> JsonRpcResult(request.id, "{}")
      [] OTHER -> JsonRpcError(request.id, -32601, "Method not found")

\* MCPService.handleRequest; toolOutcome is what handleToolCall does when it is called
handleRequest(request, toolOutcome) ==
    CASE request.method = "initialize" ->
            JsonRpcResult(request.id, "serverInfo {name, version, protocolVersion, capabilities}")
      [] request.method = "tools/list" -> JsonRpcResult(request.id, "MCP_TOOLS")
      [] request.method = "tools/call" ->
            IF toolOutcome = "throw"
            THEN JsonRpcError(request.id, -32000, "tool error")
            ELSE JsonRpcResult(request.id, "tool result")
      [] request.method = "ping"       -> JsonRpcResult(request.id, "{}")
      [] OTHER -> JsonRpcError(request.id, -32601, "Method not found")

\* body.some(req => !isPublicMethod(req.method)), or !isPublicMethod(body.method)
requiresAuth(body) ==
    \E i \in 1..Len(body.requests) : ~isPublicMethod(body.requests[i].method)

InitMcp ==
    /\ LifecycleAtRest
    /\ codec = NullObj
    /\ wire = NullObj
    /\ outbound = NullObj
    /\ proxy = NullObj
    /\ rpc \in [ stage       : {"received"},
                 body        : McpBodies,
                 credentials : Credentials,
                 admin       : {FALSE},
                 dispatched  : {{}},
                 status      : {0},
                 responses   : {<< >>} ]

Answered(status, responses) ==
    rpc' = [rpc EXCEPT !.stage = "answered", !.status = status, !.responses = responses]

\* the body is no JSON: 400 with a parse error
mcpParseError ==
    /\ rpc.stage = "received"
    /\ ~rpc.body.json
    /\ Answered(400, <<JsonRpcError(0, -32700, "Parse error: Invalid JSON")>>)
    /\ UNCHANGED rpcFrame

\* a single public request, or a batch of public requests only: answered without
\* authenticateUCP
mcpPublic ==
    /\ rpc.stage = "received"
    /\ rpc.body.json
    /\ ~requiresAuth(rpc.body)
    /\ Answered(200, [i \in 1..Len(rpc.body.requests) |->
                        handlePublicMethod(rpc.body.requests[i])])
    /\ UNCHANGED rpcFrame

\* await authenticateUCP(request): on success the handler goes on with the admin client;
\* on a throw a batch is answered 200 with one error per element, a single request 401
mcpAuthenticate ==
    /\ rpc.stage = "received"
    /\ rpc.body.json
    /\ requiresAuth(rpc.body)
    /\ IF authenticateUCP(rpc.credentials)
       THEN rpc' = [rpc EXCEPT !.stage = "authenticated", !.admin = TRUE]
       ELSE IF rpc.body.isArray
       THEN Answered(200, [i \in 1..Len(rpc.body.requests) |->
                             JsonRpcError(rpc.body.requests[i].id, -32000,
                                          "Authentication required for this method")])
       ELSE Answered(401, <<JsonRpcError(rpc.body.requests[1].id, -32000,
                                         "Authentication failed")>>)
    /\ UNCHANGED rpcFrame

\* mcpService.handleRequest on the request, or on every element of the batch
mcpDispatch ==
    /\ rpc.stage = "authenticated"
    /\ \E toolOutcomes \in [1..Len(rpc.body.requests) -> {"return", "throw"}] :
          rpc' = [rpc EXCEPT
                    !.stage = "answered",
                    !.status = 200,
                    !.dispatched = {i \in 1..Len(rpc.body.requests) :
                                      rpc.body.requests[i].method = "tools/call"},
                    !.responses = [i \in 1..Len(rpc.body.requests) |->
                                     handleRequest(rpc.body.requests[i], toolOutcomes[i])]]
    /\ UNCHANGED rpcFrame

NextMcp ==
    \/ mcpParseError
    \/ mcpPublic
    \/ mcpAuthenticate
    \/ mcpDispatch

SpecMcp == InitMcp /\ [][NextMcp]_vars

-----------------------------------------------------------------------------
(* Properties of the JSON-RPC endpoint *)

McpAnswered == rpc # NullObj /\ rpc.stage = "answered" /\ rpc.body.json

\* C21: every initialize, tools/list or ping request, alone or in a batch, is answered
\* with its normal result whether or not authentication succeeds, and a tools/call
\* request is handed to a tool handler only after authenticateUCP has succeeded.
C21_PublicMethodsNeedNoAuth ==
    McpAnswered =>
        /\ \A i \in 1..Len(rpc.body.requests) :
              isPublicMethod(rpc.body.requests[i].method)
                  => rpc.responses[i] \in {handlePublicMethod(rpc.body.requests[i]),
                                          handleRequest(rpc.body.requests[i], "return")}
        /\ rpc.dispatched # {} => rpc.admin

-----------------------------------------------------------------------------
(* Further properties of the checkout lifecycle *)

\* C22: whenever completeCheckout starts on a record whose mapped status is
\* ready_for_complete, its pre-check passes: the call does not throw at the fetch step
\* but goes on to await the draftOrderComplete mutation.
C22_ReadyPassesPreCheck ==
    [][ (/\ Serial
         /\ TruthyObj(store)
         /\ mapShopifyStatusToUCP(store) = "ready_for_complete"
         /\ issued'.handler = "completeCheckout")
        => \E c \in Callers : pc'[c] = "completeCheckout" ]_vars

\* C29: the checkout a successful cancelCheckout returns has the fields of the checkout
\* mapped from the record read at its fetch step, each with the same value, except
\* status, which is canceled, and messages, which is the one checkout_canceled info
\* message.
C29_CancelKeepsFetchedFields ==
    [][ (issued' = Step("cancelCheckout", "draftOrderDelete") /\ ret'.outcome = "ok")
        => \E c \in DOMAIN pc :
              /\ pc[c] = "cancelCheckout"
              /\ LET checkout == transformShopifyDraftOrderToUCPCheckout(fetched[c])
                 IN  /\ DOMAIN ret'.value = DOMAIN checkout
                     /\ \A field \in DOMAIN checkout \ {"status", "messages"} :
                           ret'.value[field] = checkout[field]
                     /\ ret'.value.status = "canceled"
                     /\ ret'.value.messages = <<CanceledMessage>> ]_vars

\* a ready checkout with buyer, addresses, line item and invoice link was canceled and its
\* record deleted
C29_Witness ==
    /\ issued = Step("cancelCheckout", "draftOrderDelete")
    /\ ret.outcome = "ok"
    /\ store = NullObj
    /\ ret.value.status = "canceled"
    /\ ret.value.id = CheckoutId
    /\ TruthyObj(ret.value.buyer)
    /\ Len(ret.value.buyer.addresses) = 2
    /\ Len(ret.value.line_items) = 1
    /\ ret.value.links = <<"self", "checkout">>

\* C30: a checkout that a mapper handler returns with status incomplete carries at least
\* one error message, one of missing_buyer_email, missing_shipping_address and empty_cart.
C30_IncompleteHasErrorMessage ==
    (Mapped /\ ret.value.status = "incomplete")
        => \E i \in ErrorMessages(ret.value) :
              ret.value.messages[i].code \in
                  {"missing_buyer_email", "missing_shipping_address", "empty_cart"}

-----------------------------------------------------------------------------
(* Concurrent callers on one checkout id *)

\* one caller per handler; each may be anywhere between its fetch and its mutation
Racers == {"completer", "canceler", "updater"}

\* the record is an open draft with an invoice URL and a line item
RaceDrafts ==
    {d \in Drafts : /\ d.order = NullObj
                    /\ d.status = "OPEN"
                    /\ d.invoiceUrl = InvoiceUrl
                    /\ Len(d.lineItems) > 0}

\* updates of the buyer email and the shipping destination
RaceUpdateRequests ==
    {r \in CheckoutUpdateRequests : r.line_items = AbsentList /\ r.billing = NullObj}

InitRace ==
    /\ store \in RaceDrafts
    /\ pc = [c \in Racers |-> "idle"]
    /\ fetched = [c \in Racers |-> NullObj]
    /\ ret = NoResult
    /\ issued = Step("none", "none")
    /\ response = NoResponse
    /\ reported = "none"
    /\ codec = NullObj
    /\ wire = NullObj
    /\ outbound = NullObj
    /\ rpc = NullObj
    /\ proxy = NullObj

\* completeCheckout up to its await on the mutation, whatever the other callers are doing
raceCompleteFetch ==
    /\ pc["completer"] = "idle"
    /\ IF ~TruthyObj(store)
         THEN /\ Finish(Thrown("completeCheckout", NotFoundMessage), "none", NoResponse, store)
              /\ Idle("completer")
       ELSE IF ~PreconditionsMet(transformShopifyDraftOrderToUCPCheckout(store))
         THEN /\ Finish(Thrown("completeCheckout",
                               PreconditionMessage(transformShopifyDraftOrderToUCPCheckout(store))),
                        "none", NoResponse, store)
              /\ Idle("completer")
       ELSE Await("completer", "completeCheckout")

raceCompleteMutate == completeCheckoutMutate("completer")

\* cancelCheckout up to its await on the mutation
raceCancelFetch ==
    /\ pc["canceler"] = "idle"
    /\ IF ~TruthyObj(store)
         THEN /\ Finish(Thrown("cancelCheckout", NotFoundMessage), "none", NoResponse, store)
              /\ Idle("canceler")
       ELSE Await("canceler", "cancelCheckout")

raceCancelMutate == cancelCheckoutMutate("canceler")

\* updateCheckout: one backend mutation, no fetch
raceUpdate ==
    /\ \E request \in RaceUpdateRequests :
       \E p \in DraftPayloads(IF TruthyObj(store)
                                THEN UpdatedDrafts(store, CheckoutInput(request)) ELSE {}) :
          Finish(CheckoutMutationOutcome("updateCheckout", p),
                 "draftOrderUpdate", AsDraftPayload(p), StoreAfterDraft(store, p))
    /\ UNCHANGED <<pc, fetched>>

NextRace ==
    \/ raceCompleteFetch
    \/ raceCompleteMutate
    \/ raceCancelFetch
    \/ raceCancelMutate
    \/ raceUpdate

SpecRace == InitRace /\ [][NextRace]_vars

\* C23: whenever completeCheckout issues draftOrderComplete, the record at that moment
\* exists and still has a buyer email and a shipping address, whatever updateCheckout and
\* cancelCheckout calls ran since the pre-check.
C23_PreCheckNeverStale ==
    [][ issued' = Step("completeCheckout", "draftOrderComplete")
        => /\ TruthyObj(store)
           /\ PreconditionsMet(transformShopifyDraftOrderToUCPCheckout(store)) ]_vars

-----------------------------------------------------------------------------
(* The REST routes POST /checkout-sessions/:id/complete and .../cancel *)

\* request.json() throws on it: an empty body, or text that is no JSON
Unparsable == [unparsable |-> TRUE]

\* JSON null, no meta, no key, and the key 550e8400-e29b-41d4-a716-446655440000 as it is
\* (version 4) and as a version-1 UUID
RouteBodies ==
    {Unparsable, NullObj, [meta |-> NullObj], [meta |-> [idempotency_key |-> NoKey]]}
    \cup {[meta |-> [idempotency_key |-> key]] :
             key \in {k \in SampleKeys : /\ Len(k) = 36 /\ k[1] = "5"
                                         /\ k[9] = "-" /\ k[20] = "a"}}

\* json(body, { status })
RouteAnswer(status, code, checkout) == [status |-> status, code |-> code, checkout |-> checkout]

InitRoute ==
    /\ store \in Drafts \cup {NullObj}
    /\ pc = [c \in Callers |-> "idle"]
    /\ fetched = [c \in Callers |-> NullObj]
    /\ ret = NoResult
    /\ issued = Step("none", "none")
    /\ response = NoResponse
    /\ reported = "none"
    /\ codec = NullObj
    /\ outbound = NullObj
    /\ rpc = NullObj
    /\ proxy = NullObj
    /\ wire \in [ stage     : {"received"},
                  route     : {"completeCheckout", "cancelCheckout"},
                  body      : RouteBodies,
                  attempt   : {1},
                  reads     : {0},
                  mutations : {0},
                  first     : {NullObj},
                  answer    : {NullObj} ]

\* a step of the route itself: the service and the backend are not touched
RouteStep(next) ==
    /\ wire' = next
    /\ UNCHANGED <<lifecycleVars, codec, outbound, rpc, proxy>>

RouteAnswers(answer) ==
    RouteStep([wire EXCEPT !.stage = "answered", !.answer = answer])

\* body = await request.json(), with its catch
routeParseBody ==
    /\ wire.stage = "received"
    /\ IF wire.body = Unparsable
       THEN RouteAnswers(RouteAnswer(400, "missing_idempotency_key", NullObj))
       ELSE RouteStep([wire EXCEPT !.stage = "parsed"])

\* slip: the route asks the validator for the meta object only, not for the key
routeValidateMeta_KeyOptional ==
    /\ wire.stage = "parsed"
    /\ LET metaValidation == validateUCPMeta(wire.body, FALSE)
       IN  IF ~metaValidation.valid
           THEN RouteAnswers(RouteAnswer(metaValidation.status, metaValidation.code, NullObj))
           ELSE RouteStep([wire EXCEPT !.stage = "accepted"])

\* metaValidation = validateUCPMeta(body, true); a Response is returned as it is
routeValidateMeta ==
    /\ wire.stage = "parsed"
    /\ LET metaValidation == validateUCPMeta(wire.body, TRUE)
       IN  IF ~metaValidation.valid
           THEN RouteAnswers(RouteAnswer(metaValidation.status, metaValidation.code, NullObj))
           ELSE RouteStep([wire EXCEPT !.stage = "accepted"])

\* the route has called no service method yet for the request it holds
NotCalled == wire.stage = "accepted" /\ issued.handler = "none"

\* await checkoutService.completeCheckout(checkoutId, body), up to its mutation
routeCompleteFetch ==
    /\ NotCalled
    /\ wire.route = "completeCheckout"
    /\ \E c \in Callers : completeCheckoutFetch(c)

routeCompleteMutate ==
    /\ wire.stage = "accepted"
    /\ \E c \in Callers : completeCheckoutMutate(c)

\* await checkoutService.cancelCheckout(checkoutId), up to its mutation
routeCancelFetch ==
    /\ NotCalled
    /\ wire.route = "cancelCheckout"
    /\ \E c \in Callers : cancelCheckoutFetch(c)

routeCancelMutate ==
    /\ wire.stage = "accepted"
    /\ \E c \in Callers : cancelCheckoutMutate(c)

\* the service method is over: its checkout is answered with 200, its throw with 500
\* internal_error by complete and with 404 not_found by cancel
routeRespond ==
    /\ wire.stage = "accepted"
    /\ issued.handler = wire.route
    /\ Serial
    /\ wire' = [wire EXCEPT
                  !.stage = "answered",
                  !.reads = @ + 1,
                  !.mutations = @ + (IF issued.mutation = "none" THEN 0 ELSE 1),
                  !.answer = IF ret.outcome = "ok"
                               THEN RouteAnswer(200, "none", ret.value)
                             ELSE IF wire.route = "completeCheckout"
                               THEN RouteAnswer(500, "internal_error", NullObj)
                             ELSE RouteAnswer(404, "not_found", NullObj)]
    /\ ret' = NoResult
    /\ issued' = Step("none", "none")
    /\ response' = NoResponse
    /\ UNCHANGED <<store, pc, fetched, reported, codec, outbound, rpc, proxy>>

\* the client sends the request a second time, with the same body
routeRetry ==
    /\ wire.stage = "answered"
    /\ wire.attempt = 1
    /\ RouteStep([wire EXCEPT !.stage = "received", !.attempt = 2,
                              !.first = wire.answer, !.answer = NullObj])

NextRoute ==
    \/ routeParseBody
    \/ routeValidateMeta
    \/ routeCompleteFetch
    \/ routeCompleteMutate
    \/ routeCancelFetch
    \/ routeCancelMutate
    \/ routeRespond
    \/ routeRetry

SpecRoute == InitRoute /\ [][NextRoute]_vars

-----------------------------------------------------------------------------
(* Properties of the complete and cancel routes *)

InRoute == wire # NullObj /\ wire.stage \in {"received", "parsed", "accepted", "answered"}
             /\ "route" \in DOMAIN wire

\* the body parses and carries a UUID v4 idempotency-key
CarriesValidKey(body) ==
    /\ body # Unparsable
    /\ HasMeta(body)
    /\ IsUuidV4(body.meta.idempotency_key)

C25_SameKeyIsRetrySafe ==
    (InRoute /\ wire.attempt = 2 /\ wire.stage = "answered" /\ CarriesValidKey(wire.body))
        => /\ wire.mutations <= 1
           /\ wire.answer = wire.first

-----------------------------------------------------------------------------
(* The stdio MCP proxy (scripts/mcp-proxy.cjs) *)

MaxLines == 3

\* A line of stdin is one of: a whole JSON-RPC request with an id, a whole notification
\* (no id), the JSON text null, the first or the second half of a request split over two
\* lines, or text that is no JSON and no part of one.
LineKinds == {"request", "notification", "null", "head", "tail", "garbage"}

Inputs == UNION {[1..n -> LineKinds] : n \in 0..MaxLines}

\* JSON.parse(buffer): the buffer holds the lines appended since the last successful
\* parse; it parses when it is one whole JSON text, or the two halves of one
JSONparse(buffer) ==
    IF Len(buffer) = 1 /\ buffer[1] \in {"request", "notification", "null"}
        THEN [ok |-> TRUE, value |-> buffer[1]]
    ELSE IF buffer = <<"head", "tail">>
        THEN [ok |-> TRUE, value |-> "request"]
    ELSE [ok |-> FALSE, value |-> "SyntaxError"]

\* what forwardRequest resolves to: the parsed remote body, or the error object of the
\* 'error' event, of an unparsable body, or of the 30 s timeout
ForwardOutcomes == {"remote", "Network error", "Invalid response", "Request timeout"}

InitProxy ==
    /\ LifecycleAtRest
    /\ codec = NullObj
    /\ wire = NullObj
    /\ outbound = NullObj
    /\ rpc = NullObj
    /\ proxy \in [ stdin    : Inputs,
                   read     : {0},
                   buffer   : {<< >>},
                   chain    : {<< >>},
                   rejected : {FALSE},
                   inflight : {{}},
                   stdout   : {<< >>} ]

proxyFrame == <<lifecycleVars, codec, wire, outbound, rpc>>

\* rl.on('line'): the line is appended to the buffer; when the buffer parses it is
\* emptied and handleRequest is chained on processingQueue, otherwise it is kept
proxyLine ==
    /\ proxy.read < Len(proxy.stdin)
    /\ LET line     == proxy.read + 1
           buffer   == Append(proxy.buffer, proxy.stdin[line])
           request  == JSONparse(buffer)
       IN  proxy' = [proxy EXCEPT
                       !.read = line,
                       !.buffer = IF request.ok THEN << >> ELSE buffer,
                       !.chain = IF request.ok
                                   THEN Append(@, [line |-> line, value |-> request.value])
                                   ELSE @]
    /\ UNCHANGED proxyFrame

\* slip: handleRequest is called from the line handler without the promise chain, so a
\* request is forwarded while another is still in flight
proxyHandleRequest_Unchained ==
    /\ proxy.chain # << >>
    /\ ~proxy.rejected
    /\ LET request == Head(proxy.chain)
       IN  proxy' = [proxy EXCEPT
                       !.chain = Tail(@),
                       !.rejected = request.value = "null",
                       !.inflight = IF request.value = "request"
                                      THEN @ \cup {request.line} ELSE @]
    /\ UNCHANGED proxyFrame

\* the next callback of processingQueue runs once the one before it has settled:
\* handleRequest returns at once for a notification, throws on null (request.id of null),
\* which rejects the chain for good, and otherwise starts forwardRequest
proxyHandleRequest ==
    /\ proxy.chain # << >>
    /\ ~proxy.rejected
    /\ proxy.inflight = {}
    /\ LET request == Head(proxy.chain)
       IN  proxy' = [proxy EXCEPT
                       !.chain = Tail(@),
                       !.rejected = request.value = "null",
                       !.inflight = IF request.value = "request"
                                      THEN @ \cup {request.line} ELSE @]
    /\ UNCHANGED proxyFrame

\* forwardRequest resolves and handleRequest writes the response to stdout
proxyForwardDone ==
    /\ \E line \in proxy.inflight, outcome \in ForwardOutcomes :
          proxy' = [proxy EXCEPT
                      !.inflight = @ \ {line},
                      !.stdout = Append(@, [line |-> line, response |-> outcome])]
    /\ UNCHANGED proxyFrame

NextProxy ==
    \/ proxyLine
    \/ proxyHandleRequest
    \/ proxyForwardDone

SpecProxy == InitProxy /\ [][NextProxy]_vars

\* Node delivers every line event, runs every settled promise callback and fires one of
\* the response, error and timeout events of every request
SpecProxyLive ==
    /\ SpecProxy
    /\ WF_vars(proxyLine)
    /\ WF_vars(proxyHandleRequest)
    /\ WF_vars(proxyForwardDone)

-----------------------------------------------------------------------------
(* Properties of the proxy *)

\* the stdout lines that answer the request completed by stdin line i
AnswersTo(i) == {k \in 1..Len(proxy.stdout) : proxy.stdout[k].line = i}

\* C26: responses appear on stdout in the order in which their requests were read from
\* stdin, whenever the remote calls complete, and at most one request is being forwarded
\* at any time.
C26_ResponsesInRequestOrder ==
    proxy # NullObj =>
        /\ Cardinality(proxy.inflight) <= 1
        /\ \A j, k \in 1..Len(proxy.stdout) :
              j < k => proxy.stdout[j].line < proxy.stdout[k].line
        /\ \A i \in proxy.inflight : \A k \in 1..Len(proxy.stdout) : proxy.stdout[k].line < i

\* a request was answered while the next was in flight and a third was waiting its turn
C26_Witness ==
    /\ proxy # NullObj
    /\ Len(proxy.stdout) = 1
    /\ proxy.inflight # {}
    /\ proxy.chain # << >>
    /\ Head(proxy.chain).value = "request"

\* C27: every stdin line that is a whole JSON request with an id is eventually answered
\* by exactly one stdout line, whatever lines came before it, and a notification is never
\* forwarded or answered.
C27_EveryRequestAnswered ==
    /\ \A i \in 1..MaxLines :
          <>((i <= Len(proxy.stdin) /\ proxy.stdin[i] = "request")
                => Cardinality(AnswersTo(i)) = 1)
    /\ [](\A i \in 1..Len(proxy.stdin) :
            proxy.stdin[i] = "notification" => (AnswersTo(i) = {} /\ i \notin proxy.inflight))

-----------------------------------------------------------------------------
(* What of a request's line items reaches the backend *)

\* UCPLineItem with every field a caller can state; title, sku and image_url are NullStr
\* and price and properties NullObj when left out
FullLineItems ==
    [ product_id : {ProductId},
      variant_id : {VariantId, VariantAsProductId},
      quantity   : {1},
      title      : {NullStr, "Mug"},
      sku        : {NullStr, "MUG-1"},
      image_url  : {NullStr, "https://cdn.example/mug.png"},
      price      : {NullObj, MoneyPrice},
      properties : {NullObj, [engraving |-> "Ada"], [engraving |-> "Bob"]} ]

\* a create or update request around one line item
ItemRequest(item) ==
    [line_items |-> <<item>>, email |-> BuyerEmail, destination |-> FullAddress,
     billing |-> NullObj]

InitItems ==
    /\ LifecycleAtRest
    /\ codec = NullObj
    /\ outbound = NullObj
    /\ rpc = NullObj
    /\ proxy = NullObj
    /\ wire \in [ stage    : {"requests"},
                  items    : FullLineItems \X FullLineItems,
                  mutation : {"none"},
                  inputs   : {<< >>} ]

\* the two requests go through the same service method; inputs holds the variables.input
\* of the mutation each of them sends
BothSend(mutation, first, second) ==
    /\ wire.stage = "requests"
    /\ wire' = [wire EXCEPT !.stage = "sent", !.mutation = mutation,
                            !.inputs = <<first, second>>]
    /\ UNCHANGED <<lifecycleVars, codec, outbound, rpc, proxy>>

createCheckoutInputs ==
    BothSend("createCheckout", CheckoutInput(ItemRequest(wire.items[1])),
                               CheckoutInput(ItemRequest(wire.items[2])))

updateCheckoutInputs ==
    BothSend("updateCheckout", CheckoutInput(ItemRequest(wire.items[1])),
                               CheckoutInput(ItemRequest(wire.items[2])))

createCartInputs ==
    BothSend("createCart", CartInput(ItemRequest(wire.items[1])),
                           CartInput(ItemRequest(wire.items[2])))

updateCartInputs ==
    BothSend("updateCart", CartInput(ItemRequest(wire.items[1])),
                           CartInput(ItemRequest(wire.items[2])))

NextItems ==
    \/ createCheckoutInputs
    \/ updateCheckoutInputs
    \/ createCartInputs
    \/ updateCartInputs

SpecItems == InitItems /\ [][NextItems]_vars

\* the two items agree on everything but price, title, sku and image_url
DifferOnlyInDisplayFields(a, b) ==
    /\ a.product_id = b.product_id
    /\ a.variant_id = b.variant_id
    /\ a.quantity = b.quantity
    /\ a.properties = b.properties

BothSent == wire # NullObj /\ wire.stage = "sent" /\ "inputs" \in DOMAIN wire

\* C28: two create or update requests, cart or checkout, that differ only in the price,
\* title, sku and image of a line item send the same mutation input, and a line item of an
\* input carries variantId, quantity and customAttributes only.
C28_DisplayFieldsNeverReachBackend ==
    BothSent =>
        /\ DifferOnlyInDisplayFields(wire.items[1], wire.items[2])
              => wire.inputs[1] = wire.inputs[2]
        /\ \A n \in 1..2 : \A i \in 1..Len(wire.inputs[n].lineItems) :
              DOMAIN wire.inputs[n].lineItems[i] \subseteq {"variantId", "quantity", "customAttributes"}

\* two requests that differ in all four fields, with custom attributes, sent the same input
C28_Witness ==
    /\ BothSent
    /\ wire.mutation = "updateCheckout"
    /\ wire.items[1].properties = [engraving |-> "Ada"]
    /\ DifferOnlyInDisplayFields(wire.items[1], wire.items[2])
    /\ wire.items[1].price # wire.items[2].price
    /\ wire.items[1].title # wire.items[2].title
    /\ wire.items[1].sku # wire.items[2].sku
    /\ wire.items[1].image_url # wire.items[2].image_url
    /\ wire.inputs[1] = wire.inputs[2]
    /\ wire.inputs[1].lineItems[1].customAttributes = <<[key |-> "engraving", value |-> "Ada"]>>

====
